---- MODULE Spec2Model ----
(***************************************************************************)
(* Proof Assembly & Delivery Engine of chainpoint-services (the proof      *)
(* generation service): stage events consumed from the work queue are      *)
(* composed into a Chainpoint proof, schema-checked, stored in Redis with  *)
(* an expiry, announced to a subscribed API instance, and acked or nacked. *)
(*                                                                         *)
(* Every callback of the service is one action.  JavaScript runs each      *)
(* callback to completion, so the synchronous part of a handler is atomic  *)
(* and the interleaving points are exactly the callbacks of the I/O calls. *)
(* An exception that escapes a callback ends that message's pipeline       *)
(* (pc = "threw"); it changes no shared variable.                          *)
(***************************************************************************)
EXTENDS Integers, Sequences, FiniteSets, TLC

\* ------------------------------------------------------------------ bounds
\* number of deliveries of the work queue that are followed
MaxMsg == 2
\* number of broker connections opened over a run
MaxConn == 2
\* longest operation list of a state fragment in SpecCompose
MaxOps == 2

\* the hash ids of one proof request
MaxIds == 3

\* ------------------------------------------------------- program constants
\* env.PROOF_EXPIRE_MINUTES (lib/parse-env.js is not part of the sources;
\* the value only has to be the same number wherever the name is used)
PROOF_EXPIRE_MINUTES == 1440

\* --------------------------------------------------------------- the data
\* the JavaScript value null, for the two module-level handles
Null == 0

HashIds == {"h1", "h2"}

\* uuidTime.v1(hashId): the submission time (ms) embedded in a v1 UUID
uuidTimeV1(hashId) == IF hashId = "h1" THEN 61234 ELSE 125999

\* formatDateISO8601NoMs(new Date(ms)): the ISO8601 string with the
\* milliseconds cut off, i.e. the time truncated to whole seconds
formatDateISO8601NoMs(ms) == ms \div 1000

\* a fragment or field that the JSON payload does not carry
Undefined == [undefined |-> TRUE]

IsUndefined(v) == "undefined" \in DOMAIN v

\* the i-th hash-chain operation of the state fragment named frag
Op(frag, i) == [op |-> frag, n |-> i]

\* a fragment's operation list of length k
Ops(frag, k) == [i \in 1..k |-> Op(frag, i)]

Anchor(id, uris) == [anchor_id |-> id, uris |-> uris]

\* --------------------------------------------------------- the compositor
addChainpointHeader(proof, hash, hashId) ==
    [ context |-> "https://w3id.org/chainpoint/v3",
      type |-> "Chainpoint",
      hash |-> hash,
      hash_id |-> hashId,
      hash_submitted_at |-> formatDateISO8601NoMs(uuidTimeV1(hashId)) ] @@ proof

\* the calendar ops put before the aggregation ops
CalOpsSwapped(aggState, calState) == calState.ops \o aggState.ops

\* aggState.ops.concat(calState.ops)
CalOps(aggState, calState) == aggState.ops \o calState.ops

\* ops.push({ anchors: [calendarAnchor] }) left out
CalendarBranchNoAnchor(aggState, calState) ==
    [ label |-> "cal_anchor_branch", ops |-> CalOps(aggState, calState) ]

CalendarBranch(aggState, calState) ==
    LET calendarAnchor == [ type |-> "cal",
                            anchor_id |-> calState.anchor.anchor_id,
                            uris |-> calState.anchor.uris ]
    IN  [ label |-> "cal_anchor_branch",
          ops |-> Append(CalOps(aggState, calState), [anchors |-> <<calendarAnchor>>]) ]

addCalendarBranch(proof, aggState, calState) ==
    [ branches |-> <<CalendarBranch(aggState, calState)>> ] @@ proof

\* the reads of addCalendarBranch that throw a TypeError on a missing fragment
addCalendarBranchThrows(aggState, calState) ==
    IsUndefined(aggState) \/ IsUndefined(calState)

\* the block-header ops put before the transaction ops
BtcOpsSwapped(anchorAggState, btcTxState, btcHeadState) ==
    anchorAggState.ops \o btcHeadState.ops \o btcTxState.ops

\* anchorAggState.ops.concat(btcTxState.ops, btcHeadState.ops)
BtcOps(anchorAggState, btcTxState, btcHeadState) ==
    anchorAggState.ops \o btcTxState.ops \o btcHeadState.ops

BtcBranch(anchorAggState, btcTxState, btcHeadState) ==
    LET btcAnchor == [ type |-> "btc", anchor_id |-> btcHeadState.anchor.anchor_id ]
    IN  [ label |-> "btc_anchor_branch",
          ops |-> Append(BtcOps(anchorAggState, btcTxState, btcHeadState),
                         [anchors |-> <<btcAnchor>>]) ]

\* the sub-branch put beside the calendar branch instead of under it
addBtcBranchSibling(proof, anchorAggState, btcTxState, btcHeadState) ==
    [ proof EXCEPT !.branches =
          Append(@, BtcBranch(anchorAggState, btcTxState, btcHeadState)) ]

addBtcBranch(proof, anchorAggState, btcTxState, btcHeadState) ==
    [ proof EXCEPT !.branches[1] =
          [ branches |-> <<BtcBranch(anchorAggState, btcTxState, btcHeadState)>> ] @@ @ ]

addBtcBranchThrows(anchorAggState, btcTxState, btcHeadState) ==
    IsUndefined(anchorAggState) \/ IsUndefined(btcTxState) \/ IsUndefined(btcHeadState)

\* the proof object a generate* handler starts from: let proof = {}
EmptyProof == <<>>

CALProofOf(messageObj) ==
    addCalendarBranch(addChainpointHeader(EmptyProof, messageObj.hash, messageObj.hash_id),
                      messageObj.agg_state, messageObj.cal_state)

BTCProofOf(messageObj) ==
    addBtcBranch(CALProofOf(messageObj), messageObj.anchor_agg_state,
                 messageObj.btctx_state, messageObj.btchead_state)

\* ------------------------------------------------- the inbound stage events
\* msg.content of a delivery: a JSON text, or bytes that are no JSON
Json(obj) == [json |-> obj]

Garbage == [garbage |-> TRUE]

\* JSON.parse(msg.content.toString()) throws a SyntaxError on a non-JSON text
JSONparseThrows(content) == "garbage" \in DOMAIN content

JSONparse(content) == content.json

AggSt == [ops |-> Ops("agg", 2)]

CalSt == [ops |-> Ops("cal", 1), anchor |-> Anchor("42", <<"/calendar/42">>)]

AnchorAggSt == [ops |-> Ops("anchor_agg", 1)]

BtcTxSt == [ops |-> Ops("btctx", 1)]

BtcHeadSt == [ops |-> Ops("btchead", 1), anchor |-> [anchor_id |-> "0007"]]

MessageObj(hash, hashId, agg, cal, anchorAgg, btcTx, btcHead) ==
    [ hash |-> hash, hash_id |-> hashId, agg_state |-> agg, cal_state |-> cal,
      anchor_agg_state |-> anchorAgg, btctx_state |-> btcTx, btchead_state |-> btcHead ]

CalObj(hash, hashId) ==
    MessageObj(hash, hashId, AggSt, CalSt, Undefined, Undefined, Undefined)

BtcObj(hash, hashId) ==
    MessageObj(hash, hashId, AggSt, CalSt, AnchorAggSt, BtcTxSt, BtcHeadSt)

AmqpMsg(type, content) == [type |-> type, content |-> content]

\* the deliveries the work queue can make: well-formed cal and btc events for
\* every hash id, events whose hash is no hex string, events that lack a
\* fragment of their stage, payloads that are no JSON, eth events and events
\* of a type the service does not know
Deliveries ==
    { AmqpMsg(t, Json(IF t = "cal" THEN CalObj("ab12", h) ELSE BtcObj("ab12", h))) :
          t \in {"cal", "btc"}, h \in HashIds }
    \cup { AmqpMsg("cal", Json(CalObj("zz", "h1"))),
           AmqpMsg("btc", Json(BtcObj("zz", "h1"))),
           AmqpMsg("cal", Json([CalObj("ab12", "h1") EXCEPT !.cal_state = Undefined])),
           AmqpMsg("btc", Json([BtcObj("ab12", "h1") EXCEPT !.btchead_state = Undefined])),
           AmqpMsg("btc", Json(CalObj("ab12", "h1"))),
           AmqpMsg("cal", Garbage),
           AmqpMsg("btc", Garbage),
           AmqpMsg("eth", Json(BtcObj("ab12", "h1"))),
           AmqpMsg("xyz", Json(CalObj("ab12", "h1"))) }

\* chainpointProofSchema.validate(proof).valid: of the schema's rules the one
\* the events above can break is the hex pattern of the hash field
SchemaValid(proof) ==
    /\ proof.hash \in {"ab12"}
    /\ Len(proof.branches) >= 1

\* chpBinary.objectToBase64: the Base64 text of the packed, deflated proof
objectToBase64(proof) == [base64 |-> proof]

\* --------------------------------------------------------------- the state
VARIABLES
    amqpChannel,   \* the module-level channel handle: Null or a connection id
    redis,         \* the module-level Redis handle: Null or RedisClient
    conns,         \* every broker connection's state
    opening,       \* calls of amqpOpenConnection scheduled and not yet run
    store,         \* the proof keys of Redis: hashId -> entry
    subs,          \* the 'sub:' keys of Redis: hashId -> subscription hash
    msgs,          \* every delivery's pipeline
    outbox,        \* the notifications handed to amqpChannel.publish, in order
    composed,      \* the compositor's input and output in SpecCompose
    lastSet,       \* hashId -> the delivery whose redis.set completed last
    expireAt,      \* hashId -> the instant after which its proof key is gone
    now,           \* the wall clock of the API service, in milliseconds
    apiRedis,      \* the Redis handle of the proofs endpoint: Null or RedisClient
    request,       \* the proof request served by the API service
    hashChannel,   \* the channel handle of the hash endpoint: Null or a channel
    nistLatest,    \* the latest NIST value of the hash endpoint, or null
    nistLatestEpoch, \* its timestamp in seconds, or null
    nistGiven,     \* the value last handed to setNistLatest
    enforcePrivateNodeStake, \* the balance check of the hash endpoint is on
    aggQueue,      \* the hash objects published to the aggregator queue
    post,          \* the hash submission served by the hash endpoint
    pools,         \* the four accumulation pools of the task accumulator
    draining,      \* the *_DRAINING flag of every pool
    accChannel,    \* the channel handle of the task accumulator: Null or a channel
    accRedis,      \* the Redis handle of the task accumulator: Null or RedisClient
    taskQueue,     \* the Resque queue of the task accumulator: Null or ResqueQueue
    resquePending, \* an initResqueQueueAsync is awaiting the queue
    drains,        \* the drains awaiting an enqueue
    delivered,     \* every message the task accumulator consumed, in arrival order
    decisions,     \* every ack and nack the task accumulator issued, in order
    batches,       \* every batch a drain took from a pool, in order
    chansOpened    \* the number of channels the task accumulator has opened

vars ==
    <<amqpChannel, redis, conns, opening, store, subs, msgs, outbox, composed,
      lastSet, expireAt, now, apiRedis, request,
      hashChannel, nistLatest, nistLatestEpoch, nistGiven, enforcePrivateNodeStake,
      aggQueue, post,
      pools, draining, accChannel, accRedis, taskQueue, resquePending, drains, delivered,
      decisions, batches, chansOpened>>

\* the state of the task accumulator
accVars ==
    <<pools, draining, accChannel, accRedis, taskQueue, resquePending, drains, delivered,
      decisions, batches, chansOpened>>

\* the state of the proof engine and of the proof store
coreVars ==
    <<amqpChannel, redis, conns, opening, store, subs, msgs, outbox, composed, lastSet,
      expireAt>>

\* the state of the hash endpoint
hashVars ==
    <<hashChannel, nistLatest, nistLatestEpoch, nistGiven, enforcePrivateNodeStake,
      aggQueue, post>>

\* the state of the API service
apiVars == <<now, apiRedis, request>>

RedisClient == 1

Msgs == 1..MaxMsg

Conns == 1..MaxConn

NoEntry == [absent |-> TRUE]

\* hgetall of a key that does not exist
NoSub == [null |-> TRUE]

SubRecords ==
    { NoSub, [api_id |-> "X", cx_id |-> "Y"], [api_id |-> "X"] }

NoProof == [none |-> TRUE]

NotComposed == [stage |-> "none"]

IdleMsg ==
    [ pc |-> "idle", msg |-> AmqpMsg("none", Garbage), chan |-> Null,
      proof |-> NoProof, proofBase64 |-> NoProof, sub |-> NoSub, decisions |-> <<>>,
      hist |-> <<>> ]

\* env.PROOF_EXPIRE_MINUTES * 60 * 1000, the greatest age in milliseconds at
\* which the proofs endpoint still fetches a proof
maxDiff == PROOF_EXPIRE_MINUTES * 60 * 1000

\* the instants the clock passes through: each hash id's submission time, the
\* last instant at which it is still fetched, and the first at which it is not
Instants == { uuidTimeV1(h) + d : h \in HashIds, d \in {0, maxDiff, maxDiff + 1} }

FirstInstant == CHOOSE t \in Instants : \A u \in Instants : t <= u

\* hashIdResult.proof as initialised, and the reply of redis.get for a key
\* that does not exist
NullProof == [null |-> TRUE]

NoRequest == [pc |-> "none"]

\* ------------------------------------------------------ the task accumulator
\* the messages the task accumulator consumes in one behaviour
MaxDeliveries == 3

\* the drains of the task accumulator that await an enqueue at one time
MaxDrains == 2

\* 500 in the source, scaled
auditLogWriteBatchSize == 1

\* 1000 in the source, scaled
auditScoreUpdateBatchSize == 2

Pools ==
    { "AUDIT_LOG_WRITE_POOL", "AUDIT_SCORE_UPDATE_POOL", "E2E_AUDIT_LOG_WRITE_POOL",
      "E2E_AUDIT_SCORE_UPDATE_POOL" }

Drains == 1..MaxDrains

ResqueQueue == 1

IdleDrain == [pc |-> "idle"]

\* the task accumulator after its module was loaded, before start()
InitAcc ==
    /\ pools = [p \in Pools |-> <<>>]
    /\ draining = [p \in Pools |-> FALSE]
    /\ accChannel = Null
    /\ accRedis = Null
    /\ taskQueue = Null
    /\ resquePending = FALSE
    /\ drains = [d \in Drains |-> IdleDrain]
    /\ delivered = <<>>
    /\ decisions = <<>>
    /\ batches = <<>>
    /\ chansOpened = 0

Init ==
    /\ amqpChannel = Null
    /\ redis = RedisClient
    /\ conns = [c \in Conns |-> "none"]
    /\ opening = 1
    /\ store = [h \in HashIds |-> NoEntry]
    /\ subs \in [HashIds -> SubRecords]
    /\ msgs = [m \in Msgs |-> IdleMsg]
    /\ outbox = <<>>
    /\ composed = NotComposed
    /\ lastSet = [h \in HashIds |-> Null]
    /\ expireAt = [h \in HashIds |-> Null]
    /\ now = FirstInstant
    /\ apiRedis = RedisClient
    /\ request = NoRequest
    /\ hashChannel = Null
    /\ nistLatest = NullProof
    /\ nistLatestEpoch = NullProof
    /\ nistGiven = NullProof
    /\ enforcePrivateNodeStake = FALSE
    /\ aggQueue = <<>>
    /\ post = NoRequest
    /\ InitAcc

\* ------------------------------------------------ the reliability controller
\* hist is the record of what a pipeline did, kept for stating the claims
Log(r, what) == [r EXCEPT !.hist = Append(@, what)]

\* an exception escapes the running callback: no ack and no nack is issued
Threw(r, what) == [Log(r, what) EXCEPT !.pc = "threw"]

\* amqpChannel.ack(msg) or amqpChannel.nack(msg) on the handle as it is now:
\* a TypeError when the handle is null
Decide(r, kind) ==
    IF amqpChannel = Null
    THEN Threw(r, "decide_throw")
    ELSE [r EXCEPT !.pc = "done",
                   !.decisions = Append(@, [kind |-> kind, chan |-> amqpChannel])]

\* the final callback of async.waterfall
WaterfallDone(r, err) == Decide(r, IF err THEN "nack" ELSE "ack")

\* the document stamped with the time of processing, here the number of
\* deliveries taken so far, in place of the time embedded in the hash id
ValidateAndStartWallClock(r, proof) ==
    LET wallClock == 1000 * Cardinality({ m \in Msgs : msgs[m].pc # "idle" })
        stamped == [proof EXCEPT !.hash_submitted_at = formatDateISO8601NoMs(wallClock)]
    IN  IF ~SchemaValid(stamped)
        THEN Decide(Log([r EXCEPT !.proof = stamped], "schema_invalid"), "ack")
        ELSE [r EXCEPT !.proof = stamped, !.pc = "enc"]

\* the schema validation left out: every composed document is encoded
ValidateAndStartUnchecked(r, proof) == [r EXCEPT !.proof = proof, !.pc = "enc"]

\* the return after the ack of a schema-invalid proof left out
ValidateAndStartNoReturn(r, proof) ==
    IF ~SchemaValid(proof)
    THEN [Decide(Log([r EXCEPT !.proof = proof], "schema_invalid"), "ack")
              EXCEPT !.pc = IF @ = "done" THEN "enc" ELSE @]
    ELSE [r EXCEPT !.proof = proof, !.pc = "enc"]

\* the schema validation of the generate* handlers and the start of the
\* waterfall, whose first task calls chpBinary.objectToBase64
ValidateAndStart(r, proof) ==
    IF ~SchemaValid(proof)
    THEN Decide(Log([r EXCEPT !.proof = proof], "schema_invalid"), "ack")
    ELSE [r EXCEPT !.proof = proof, !.pc = "enc"]

generateCALProof(r) ==
    IF JSONparseThrows(r.msg.content) THEN Threw(r, "parse_throw")
    ELSE LET messageObj == JSONparse(r.msg.content)
         IN  IF addCalendarBranchThrows(messageObj.agg_state, messageObj.cal_state)
             THEN Threw(r, "compose_throw")
             ELSE ValidateAndStart(r, CALProofOf(messageObj))

\* a btc handler that extends the document found in the proof store instead
\* of composing the calendar branch itself
generateBTCProofFromStore(r) ==
    IF JSONparseThrows(r.msg.content) THEN Threw(r, "parse_throw")
    ELSE LET messageObj == JSONparse(r.msg.content)
         IN  IF \/ messageObj.hash_id \notin HashIds
                \/ store[messageObj.hash_id] = NoEntry
                \/ addBtcBranchThrows(messageObj.anchor_agg_state, messageObj.btctx_state,
                                      messageObj.btchead_state)
             THEN Threw(r, "compose_throw")
             ELSE ValidateAndStart(r,
                      addBtcBranch(store[messageObj.hash_id].value.base64,
                                   messageObj.anchor_agg_state, messageObj.btctx_state,
                                   messageObj.btchead_state))

generateBTCProof(r) ==
    IF JSONparseThrows(r.msg.content) THEN Threw(r, "parse_throw")
    ELSE LET messageObj == JSONparse(r.msg.content)
         IN  IF \/ addCalendarBranchThrows(messageObj.agg_state, messageObj.cal_state)
                \/ addBtcBranchThrows(messageObj.anchor_agg_state, messageObj.btctx_state,
                                      messageObj.btchead_state)
             THEN Threw(r, "compose_throw")
             ELSE ValidateAndStart(r, BTCProofOf(messageObj))

\* the eth handler filled in with the body of the btc handler
generateETHProofAsBTC(r) == generateBTCProof(r)

\* console.log('building eth proof')
generateETHProof(r) == [Log(r, "eth_logged") EXCEPT !.pc = "done"]

processMessage(r) ==
    CASE r.msg.type = "cal" -> generateCALProof(r)
      [] r.msg.type = "eth" -> generateETHProof(r)
      [] r.msg.type = "btc" -> generateBTCProof(r)
      [] OTHER -> [Log(r, "unknown_type") EXCEPT !.pc = "done"]

\* the consumer callback of chan.consume on connection c
Deliver(m, c, msg) ==
    /\ msgs[m].pc = "idle"
    /\ \A k \in 1..(m - 1) : msgs[k].pc # "idle"
    /\ conns[c] = "consuming"
    /\ msgs' = [msgs EXCEPT ![m] = processMessage([IdleMsg EXCEPT !.msg = msg, !.chan = c])]
    /\ UNCHANGED <<amqpChannel, redis, conns, opening, store, subs, outbox, composed, lastSet, expireAt, apiVars, hashVars, accVars>>

hashIdOf(r) == JSONparse(r.msg.content).hash_id

\* the callback of chpBinary.objectToBase64, and on success the second task,
\* which calls redis.set on the handle as it is now
EncodeCallback(m, err) ==
    /\ msgs[m].pc = "enc"
    /\ msgs' = [msgs EXCEPT ![m] =
           IF err THEN WaterfallDone(Log(@, "enc_err"), TRUE)
           ELSE IF redis = Null THEN Threw(@, "set_throw")
           ELSE [Log(@, "set_call") EXCEPT !.proofBase64 = objectToBase64(msgs[m].proof),
                                           !.pc = "set"]]
    /\ UNCHANGED <<amqpChannel, redis, conns, opening, store, subs, outbox, composed, lastSet, expireAt, apiVars, hashVars, accVars>>

\* the minutes handed to 'EX' as they are, without the factor 60
EntryMinutes(value) == [value |-> value, ex |-> PROOF_EXPIRE_MINUTES]

\* the entry redis.set writes: the value and its time to live in seconds
Entry(value) == [value |-> value, ex |-> PROOF_EXPIRE_MINUTES * 60]

\* the 'EX' of redis.set: the key is gone once the clock has passed the
\* instant of the write plus the time to live (Redis drops a key when the
\* clock is past its expiry instant, not at it)
RedisExpire(key) == [expireAt EXCEPT ![key] = now + Entry(NullProof).ex * 1000]

\* a write that keeps an entry already present (SET ... NX)
RedisSetKeepFirst(key, value) ==
    IF store[key] = NoEntry THEN [store EXCEPT ![key] = Entry(value)] ELSE store

\* a write that empties every other proof key
RedisSetAlone(key, value) ==
    [h \in HashIds |-> IF h = key THEN Entry(value) ELSE NoEntry]

\* a write that keeps an entry whose document has the btc sub-branch when the
\* new document has none
RedisSetKeepBtc(key, value) ==
    IF /\ store[key] # NoEntry
       /\ "branches" \in DOMAIN store[key].value.base64.branches[1]
       /\ "branches" \notin DOMAIN value.base64.branches[1]
    THEN store
    ELSE [store EXCEPT ![key] = Entry(value)]

\* redis.set(hash_id, proofBase64, 'EX', PROOF_EXPIRE_MINUTES * 60)
RedisSet(key, value) == [store EXCEPT ![key] = Entry(value)]

\* a set callback that goes on to the lookup whether or not the write failed
SetCallbackIgnoringError(m, err) ==
    /\ msgs[m].pc = "set"
    /\ store' = IF err THEN store ELSE RedisSet(hashIdOf(msgs[m]), msgs[m].proofBase64)
    /\ lastSet' = IF err THEN lastSet ELSE [lastSet EXCEPT ![hashIdOf(msgs[m])] = m]
    /\ expireAt' = IF err THEN expireAt ELSE RedisExpire(hashIdOf(msgs[m]))
    /\ msgs' = [msgs EXCEPT ![m] =
           IF redis = Null THEN Threw(Log(@, IF err THEN "set_err" ELSE "set_ok"), "hget_throw")
           ELSE [Log(Log(@, IF err THEN "set_err" ELSE "set_ok"), "hget_call")
                     EXCEPT !.pc = "hget"]]
    /\ UNCHANGED <<amqpChannel, redis, conns, opening, subs, outbox, composed, apiVars, hashVars, accVars>>

\* the callback of redis.set, and on success the third task, which calls
\* redis.hgetall on the handle as it is now
SetCallback(m, err) ==
    /\ msgs[m].pc = "set"
    /\ store' = IF err THEN store ELSE RedisSet(hashIdOf(msgs[m]), msgs[m].proofBase64)
    /\ lastSet' = IF err THEN lastSet ELSE [lastSet EXCEPT ![hashIdOf(msgs[m])] = m]
    /\ expireAt' = IF err THEN expireAt ELSE RedisExpire(hashIdOf(msgs[m]))
    /\ msgs' = [msgs EXCEPT ![m] =
           IF err THEN WaterfallDone(Log(@, "set_err"), TRUE)
           ELSE IF redis = Null THEN Threw(Log(@, "set_ok"), "hget_throw")
           ELSE [Log(Log(@, "set_ok"), "hget_call") EXCEPT !.pc = "hget"]]
    /\ UNCHANGED <<amqpChannel, redis, conns, opening, subs, outbox, composed, apiVars, hashVars, accVars>>

\* res == null || !res.api_id || !res.cx_id
NoSubscription(res) ==
    \/ "null" \in DOMAIN res
    \/ "api_id" \notin DOMAIN res
    \/ "cx_id" \notin DOMAIN res

\* the connection id put in the routing header and the instance id in the body
NotificationSwapped(APIServiceInstanceId, wsConnectionId, hashId) ==
    [ headers |-> [api_id |-> wsConnectionId],
      body |-> [cx_id |-> APIServiceInstanceId, hash_id |-> hashId] ]

\* the notification handed to amqpChannel.publish: the headers and the body
Notification(APIServiceInstanceId, wsConnectionId, hashId) ==
    [ headers |-> [api_id |-> APIServiceInstanceId],
      body |-> [cx_id |-> wsConnectionId, hash_id |-> hashId] ]

\* a lookup that consumes the subscription it found (the record is deleted
\* once read)
HgetallCallbackConsuming(m, err) ==
    /\ msgs[m].pc = "hget"
    /\ LET res == subs[hashIdOf(msgs[m])]
           publishes == ~err /\ ~NoSubscription(res) /\ amqpChannel # Null
       IN  /\ msgs' = [msgs EXCEPT ![m] =
                  IF err THEN WaterfallDone(Log(@, "hget_err"), TRUE)
                  ELSE IF NoSubscription(res)
                       THEN WaterfallDone(Log([@ EXCEPT !.sub = res], "hget_none"), FALSE)
                  ELSE IF amqpChannel = Null
                       THEN Threw(Log([@ EXCEPT !.sub = res], "hget_sub"), "pub_throw")
                  ELSE [Log(Log([@ EXCEPT !.sub = res], "hget_sub"), "pub_call")
                            EXCEPT !.pc = "pub"]]
           /\ outbox' = IF publishes
                        THEN Append(outbox,
                                 [ note |-> Notification(res.api_id, res.cx_id, hashIdOf(msgs[m])),
                                   chan |-> amqpChannel, of |-> m ])
                        ELSE outbox
           /\ subs' = IF publishes THEN [subs EXCEPT ![hashIdOf(msgs[m])] = NoSub] ELSE subs
    /\ UNCHANGED <<amqpChannel, redis, conns, opening, store, composed, lastSet, expireAt, apiVars, hashVars, accVars>>

\* the callback of redis.hgetall('sub:' + hash_id), and the fourth task, which
\* publishes on the handle as it is now when a subscription was found
HgetallCallback(m, err) ==
    /\ msgs[m].pc = "hget"
    /\ LET res == subs[hashIdOf(msgs[m])]
           publishes == ~err /\ ~NoSubscription(res) /\ amqpChannel # Null
       IN  /\ msgs' = [msgs EXCEPT ![m] =
                  IF err THEN WaterfallDone(Log(@, "hget_err"), TRUE)
                  ELSE IF NoSubscription(res)
                       THEN WaterfallDone(Log([@ EXCEPT !.sub = res], "hget_none"), FALSE)
                  ELSE IF amqpChannel = Null
                       THEN Threw(Log([@ EXCEPT !.sub = res], "hget_sub"), "pub_throw")
                  ELSE [Log(Log([@ EXCEPT !.sub = res], "hget_sub"), "pub_call")
                            EXCEPT !.pc = "pub"]]
           /\ outbox' = IF publishes
                        THEN Append(outbox,
                                 [ note |-> Notification(res.api_id, res.cx_id, hashIdOf(msgs[m])),
                                   chan |-> amqpChannel, of |-> m ])
                        ELSE outbox
    /\ UNCHANGED <<amqpChannel, redis, conns, opening, store, subs, composed, lastSet, expireAt, apiVars, hashVars, accVars>>

\* the confirm callback of amqpChannel.publish
PublishCallback(m, err) ==
    /\ msgs[m].pc = "pub"
    /\ msgs' = [msgs EXCEPT ![m] = WaterfallDone(Log(@, IF err THEN "pub_err" ELSE "pub_ok"), err)]
    /\ UNCHANGED <<amqpChannel, redis, conns, opening, store, subs, outbox, composed, lastSet, expireAt, apiVars, hashVars, accVars>>

\* ------------------------------------------------------------ connections
\* a scheduled amqpOpenConnection runs and amqp.connect succeeds: the close
\* handler is registered and createConfirmChannel is called.  (When
\* amqp.connect fails the call is scheduled again, which changes nothing.)
AmqpConnect(c) ==
    /\ opening > 0
    /\ conns[c] = "none"
    /\ \A k \in 1..(c - 1) : conns[k] # "none"
    /\ conns' = [conns EXCEPT ![c] = "open"]
    /\ opening' = opening - 1
    /\ UNCHANGED <<amqpChannel, redis, store, subs, msgs, outbox, composed, lastSet, expireAt, apiVars, hashVars, accVars>>

\* the callback of conn.createConfirmChannel without an error
ChannelCreated(c) ==
    /\ conns[c] = "open"
    /\ conns' = [conns EXCEPT ![c] = "consuming"]
    /\ amqpChannel' = c
    /\ UNCHANGED <<redis, opening, store, subs, msgs, outbox, composed, lastSet, expireAt, apiVars, hashVars, accVars>>

\* the callback of conn.createConfirmChannel with an error: the waterfall's
\* final callback schedules amqpOpenConnection; the connection is not closed
ChannelFailed(c) ==
    /\ conns[c] \in {"open", "closing"}
    /\ conns' = [conns EXCEPT ![c] = IF @ = "open" THEN "failed" ELSE "closed"]
    /\ opening' = opening + 1
    /\ UNCHANGED <<amqpChannel, redis, store, subs, msgs, outbox, composed, lastSet, expireAt, apiVars, hashVars, accVars>>

\* conn.on('close'): the handle is set to null and amqpOpenConnection is
\* scheduled, whichever connection closed
ConnClose(c) ==
    /\ conns[c] \in {"open", "failed", "consuming"}
    /\ conns' = [conns EXCEPT ![c] = IF @ = "open" THEN "closing" ELSE "closed"]
    /\ amqpChannel' = Null
    /\ opening' = opening + 1
    /\ UNCHANGED <<redis, store, subs, msgs, outbox, composed, lastSet, expireAt, apiVars, hashVars, accVars>>

\* redis.on('error'): redis.quit(); redis = null
RedisError ==
    /\ redis # Null
    /\ redis' = Null
    /\ UNCHANGED <<amqpChannel, conns, opening, store, subs, msgs, outbox, composed, lastSet, expireAt, apiVars, hashVars, accVars>>

\* the timer of the error handler runs openRedisConnection
openRedisConnection ==
    /\ redis = Null
    /\ redis' = RedisClient
    /\ UNCHANGED <<amqpChannel, conns, opening, store, subs, msgs, outbox, composed, lastSet, expireAt, apiVars, hashVars, accVars>>

\* ------------------------------------------------------ the retrieval layer
\* The proofs endpoint, getProofsByIDV1Async: the request checks, the age
\* check and the store read of every hash id, and the response.
BASE64_MIME_TYPE == "application/vnd.chainpoint.json+base64"

JSONLD_MIME_TYPE == "application/vnd.chainpoint.ld+json"

\* uuidValidate(hash_id, 1): the hash ids of the model are version 1 UUIDs and
\* "nope" is not
uuidValidate(hashId) == hashId \in HashIds

\* the items of a hashids header split at the commas: the hash ids, one of
\* them after a blank, and a text that is no UUID
RequestIds == {"h1", " h2", "nope"}

\* hashId.trim()
trim(hashId) == IF hashId = " h2" THEN "h2" ELSE hashId

IdLists == UNION { [1..n -> RequestIds] : n \in 1..MaxIds }

\* env.GET_PROOFS_MAX_REST, scaled down
GET_PROOFS_MAX_REST == 2

\* the hmac accepted for anything
HmacMatchesAny(authValue, regNode) == TRUE

\* crypto.createHmac('sha256', hmacKey).update(tntAddr).digest('hex')
Hmac(hmacKey, tntAddr) == [hmac |-> <<hmacKey, tntAddr>>]

\* authValueSegments[1] !== hmac, negated
HmacMatches(authValue, regNode) == authValue = Hmac(regNode.hmacKey, regNode.tntAddr)

\* the rows of the registered nodes table
RegisteredNodes == { [tntAddr |-> "0xaa", hmacKey |-> "k1"] }

NoNode == [null |-> TRUE]

\* RegisteredNode.findOne({ where: { tntAddr: tntAddrHeaderParam } })
findOne(tntAddr) ==
    IF \E n \in RegisteredNodes : n.tntAddr = tntAddr
    THEN CHOOSE n \in RegisteredNodes : n.tntAddr = tntAddr
    ELSE NoNode

\* /^bearer$/i
IsBearer(segment) == segment \in {"bearer", "Bearer", "BEARER"}

\* /^0x[0-9a-f]{40}$/i, on addresses shortened to one hex pair
TntAddressValid(value) == value \in {"0xaa", "0xAA", "0xbb"}

toLowerCase(value) ==
    IF value = "0xAA" THEN "0xaa" ELSE IF value = "AB12" THEN "ab12" ELSE value

\* a header or parameter that is present
Given(value) == [value |-> value]

\* headers.authorization, as the segments between its blanks
AuthorizationHeaders ==
    { Undefined,
      Given(<<"Bearer">>),
      Given(<<"Basic", Hmac("k1", "0xaa")>>),
      Given(<<"bearer", Hmac("k1", "0xaa")>>),
      Given(<<"Bearer", Hmac("k1", "0xAA")>>) }

TntAddressHeaders == { Undefined, Given("0xZZ"), Given("0xAA"), Given("0xbb") }

HashIdParams == { Undefined, Given("h1"), Given("nope") }

HashidsHeaders == { Undefined } \cup { Given(ids) : ids \in IdLists }

\* the requests: headers, the hash_id of the url, and what req.accepts says.
\* A url with a hash_id comes without a hashids header or with a short one,
\* which the handler does not read then.
Requests ==
    { req \in [ authorization : AuthorizationHeaders,
                tnt_address : TntAddressHeaders,
                hash_id : HashIdParams,
                hashids : HashidsHeaders,
                accept : {JSONLD_MIME_TYPE, BASE64_MIME_TYPE} ] :
          ~IsUndefined(req.hash_id) => req.hashids \in {Undefined, Given(<<"nope">>)} }

\* the requests of a registered node that carry its hmac
AuthorizedRequests ==
    { req \in Requests :
          /\ req.authorization = Given(<<"bearer", Hmac("k1", "0xaa")>>)
          /\ req.tnt_address = Given("0xAA") }

\* hashIdResults as lines 72-85 fill it
RequestedIds(req) ==
    IF ~IsUndefined(req.hash_id) THEN <<req.hash_id.value>>
    ELSE IF ~IsUndefined(req.hashids) THEN req.hashids.value
    ELSE <<>>

\* next(new restify.<name>(message)); on is the value the check rejected
Failed(name, message, on) ==
    [pc |-> "error", error |-> [name |-> name, message |-> message], on |-> on, reads |-> 0]

NoError == [pc |-> "ok"]

\* the checks before the await (lines 50-97), in their order
CheckRequest(req) ==
    IF IsUndefined(req.authorization)
    THEN Failed("InvalidCredentialsError", "missing authorization key", req.authorization)
    ELSE IF Len(req.authorization.value) # 2 \/ ~IsBearer(req.authorization.value[1])
    THEN Failed("InvalidCredentialsError", "bad authorization value", req.authorization)
    ELSE IF IsUndefined(req.tnt_address)
    THEN Failed("InvalidCredentialsError", "missing tnt-address key", req.tnt_address)
    ELSE IF ~TntAddressValid(req.tnt_address.value)
    THEN Failed("InvalidCredentialsError", "invalid tnt-address value", req.tnt_address)
    ELSE IF ~IsUndefined(req.hash_id) /\ ~uuidValidate(req.hash_id.value)
    THEN Failed("InvalidArgumentError", "bad hash_id", req.hash_id)
    ELSE IF Len(RequestedIds(req)) = 0
    THEN Failed("InvalidArgumentError", "at least one hash id required", Given(0))
    ELSE IF Len(RequestedIds(req)) > GET_PROOFS_MAX_REST
    THEN Failed("InvalidArgumentError", "too many hash ids", Given(Len(RequestedIds(req))))
    ELSE NoError

\* the proof key is in the store: it was written and has not expired
Present(key) == store[key] # NoEntry /\ now <= expireAt[key]

\* redis.get(key): the stored value, or null
RedisGet(key) == IF Present(key) THEN store[key].value ELSE NullProof

\* chpBinary.binaryToObject answers an error for null and for anything that is
\* not an encoded proof
binaryToObjectFails(proofBase64) == "base64" \notin DOMAIN proofBase64

\* chpBinary.binaryToObject of an encoded proof: the encoding is taken to be
\* lossless, as objectToBase64 is taken to be injective
binaryToObject(proofBase64) == proofBase64.base64

\* the age taken in seconds and compared with the limit in milliseconds
IterationAgeInSeconds(hashId) ==
    IF ~uuidValidate(hashId)
    THEN [hash_id |-> hashId, proof |-> NullProof, pc |-> "done", why |-> "invalid", at |-> now]
    ELSE IF (now - uuidTimeV1(hashId)) \div 1000 > maxDiff
    THEN [hash_id |-> hashId, proof |-> NullProof, pc |-> "done", why |-> "old", at |-> now]
    ELSE [hash_id |-> hashId, proof |-> NullProof, pc |-> "get", why |-> "fetched", at |-> now]

\* one iteration of async.eachLimit up to its first callback or to the call
\* of redis.get (lines 121-130); at is the clock value the iteration read
Iteration(hashId) ==
    IF ~uuidValidate(hashId)
    THEN [hash_id |-> hashId, proof |-> NullProof, pc |-> "done", why |-> "invalid", at |-> now]
    ELSE IF now - uuidTimeV1(hashId) > maxDiff
    THEN [hash_id |-> hashId, proof |-> NullProof, pc |-> "done", why |-> "old", at |-> now]
    ELSE [hash_id |-> hashId, proof |-> NullProof, pc |-> "get", why |-> "fetched", at |-> now]

\* the handler up to its await: the checks of lines 50-97 and the call of
\* RegisteredNode.findOne
getProofsByIDV1Async(req) ==
    /\ request.pc = "none"
    /\ request' = IF CheckRequest(req) = NoError
                  THEN [pc |-> "findOne", req |-> req]
                  ELSE CheckRequest(req)
    /\ UNCHANGED <<amqpChannel, redis, conns, opening, store, subs, msgs, outbox, composed,
                   lastSet, expireAt, now, apiRedis, hashVars, accVars>>

\* lines 114-130: the results array is prepared and async.eachLimit starts
\* every iteration (at most 50 run at once); redis.get on a null handle is a
\* TypeError that ends the handler without a response.  reads counts the
\* calls of redis.get.
StartFetching(req) ==
    LET ids == RequestedIds(req)
        hashIdResults == [i \in DOMAIN ids |-> Iteration(trim(ids[i]))]
        pending == { i \in DOMAIN ids : hashIdResults[i].pc = "get" }
    IN  [ pc |-> IF pending # {} /\ apiRedis = Null THEN "threw"
                 ELSE IF pending # {} THEN "fetching" ELSE "sent",
          req |-> req,
          requestedType |-> req.accept,
          hashIdResults |-> hashIdResults,
          reads |-> IF apiRedis = Null THEN 0 ELSE Cardinality(pending) ]

\* the handler after its await (lines 100-130): findOne answered or threw;
\* the node must be registered and the bearer value its hmac
FindOneCallback(throws) ==
    /\ request.pc = "findOne"
    /\ LET req == request.req
           tntAddrHeaderParam == toLowerCase(req.tnt_address.value)
           regNode == findOne(tntAddrHeaderParam)
       IN  request' =
               IF throws
               THEN Failed("InvalidCredentialsError", "authorization denied: error", Given("findOne"))
               ELSE IF regNode = NoNode
               THEN Failed("InvalidCredentialsError", "unknown tnt-address", req.tnt_address)
               ELSE IF ~HmacMatches(req.authorization.value[2], regNode)
               THEN Failed("InvalidCredentialsError", "bad hmac value", req.authorization)
               ELSE StartFetching(req)
    /\ UNCHANGED <<amqpChannel, redis, conns, opening, store, subs, msgs, outbox, composed,
                   lastSet, expireAt, now, apiRedis, hashVars, accVars>>

\* the callback of redis.get for the i-th hash id (lines 130-142), and
\* res.send(hashIdResults) when it was the last one pending (lines 143-148)
RedisGetCallback(i, err) ==
    /\ request.pc = "fetching"
    /\ i \in DOMAIN request.hashIdResults
    /\ request.hashIdResults[i].pc = "get"
    /\ LET proofBase64 == RedisGet(request.hashIdResults[i].hash_id)
           proof == IF err THEN NullProof
                    ELSE IF request.requestedType = BASE64_MIME_TYPE THEN proofBase64
                    ELSE IF binaryToObjectFails(proofBase64) THEN NullProof
                    ELSE binaryToObject(proofBase64)
           why == IF err THEN "get_err"
                  ELSE IF request.requestedType = BASE64_MIME_TYPE THEN "fetched"
                  ELSE IF binaryToObjectFails(proofBase64) THEN "decode_err"
                  ELSE "fetched"
           hashIdResults == [request.hashIdResults EXCEPT
                                ![i].proof = proof, ![i].pc = "done", ![i].why = why]
       IN  request' = [request EXCEPT
                          !.hashIdResults = hashIdResults,
                          !.pc = IF \A k \in DOMAIN hashIdResults : hashIdResults[k].pc = "done"
                                 THEN "sent" ELSE "fetching"]
    /\ UNCHANGED <<amqpChannel, redis, conns, opening, store, subs, msgs, outbox, composed,
                   lastSet, expireAt, now, apiRedis, hashVars, accVars>>

\* setRedis(redisClient), exported for the server to hand over or withdraw
\* its Redis client
setRedis(redisClient) ==
    /\ apiRedis # redisClient
    /\ apiRedis' = redisClient
    /\ UNCHANGED <<amqpChannel, redis, conns, opening, store, subs, msgs, outbox, composed,
                   lastSet, expireAt, now, request, hashVars, accVars>>

\* time passes: new Date().getTime() reads a later instant
Tick ==
    /\ \E t \in Instants : t > now
    /\ now' = CHOOSE t \in Instants : t > now /\ \A u \in Instants : u > now => t <= u
    /\ UNCHANGED <<amqpChannel, redis, conns, opening, store, subs, msgs, outbox, composed,
                   lastSet, expireAt, apiRedis, request, hashVars, accVars>>

\* the document the engine stores for hash id h at a stage
StoredProof(h, stage) ==
    IF stage = "cal" THEN CALProofOf(CalObj("ab12", h)) ELSE BTCProofOf(BtcObj("ab12", h))

\* the engine completes a store write for hash id h while the API service
\* runs: the redis.set of SetCallback, at the present instant.  An event for
\* a hash id exists only once the hash was submitted, which is the time its
\* id embeds.
EngineStores(h, stage) ==
    /\ now >= uuidTimeV1(h)
    /\ store' = RedisSet(h, objectToBase64(StoredProof(h, stage)))
    /\ expireAt' = RedisExpire(h)
    /\ UNCHANGED <<amqpChannel, redis, conns, opening, subs, msgs, outbox, composed,
                   lastSet, apiVars, hashVars, accVars>>

InitApi ==
    /\ amqpChannel = Null
    /\ redis = RedisClient
    /\ conns = [c \in Conns |-> "none"]
    /\ opening = 1
    /\ store = [h \in HashIds |-> NoEntry]
    /\ subs = [h \in HashIds |-> NoSub]
    /\ msgs = [m \in Msgs |-> IdleMsg]
    /\ outbox = <<>>
    /\ composed = NotComposed
    /\ lastSet = [h \in HashIds |-> Null]
    /\ expireAt = [h \in HashIds |-> Null]
    /\ now = FirstInstant
    /\ apiRedis \in {Null, RedisClient}
    /\ request = NoRequest
    /\ hashChannel = Null
    /\ nistLatest = NullProof
    /\ nistLatestEpoch = NullProof
    /\ nistGiven = NullProof
    /\ enforcePrivateNodeStake = FALSE
    /\ aggQueue = <<>>
    /\ post = NoRequest
    /\ InitAcc

\* the endpoint serving the requests of a registered node while time passes
\* and the engine stores proofs
NextApi ==
    \/ \E req \in AuthorizedRequests : getProofsByIDV1Async(req)
    \/ \E throws \in BOOLEAN : FindOneCallback(throws)
    \/ \E i \in 1..MaxIds, err \in BOOLEAN : RedisGetCallback(i, err)
    \/ \E redisClient \in {Null, RedisClient} : setRedis(redisClient)
    \/ Tick
    \/ \E h \in HashIds, stage \in {"cal", "btc"} : EngineStores(h, stage)

SpecApi == InitApi /\ [][NextApi]_vars

\* the endpoint serving every request, at one instant
NextChecks ==
    \/ \E req \in Requests : getProofsByIDV1Async(req)
    \/ \E throws \in BOOLEAN : FindOneCallback(throws)
    \/ \E i \in 1..MaxIds, err \in BOOLEAN : RedisGetCallback(i, err)
    \/ \E redisClient \in {Null, RedisClient} : setRedis(redisClient)

SpecChecks == InitApi /\ [][NextChecks]_vars

Next ==
    \/ \E m \in Msgs, c \in Conns, msg \in Deliveries : Deliver(m, c, msg)
    \/ \E m \in Msgs, err \in BOOLEAN : EncodeCallback(m, err)
    \/ \E m \in Msgs, err \in BOOLEAN : SetCallback(m, err)
    \/ \E m \in Msgs, err \in BOOLEAN : HgetallCallback(m, err)
    \/ \E m \in Msgs, err \in BOOLEAN : PublishCallback(m, err)
    \/ \E c \in Conns : AmqpConnect(c)
    \/ \E c \in Conns : ChannelCreated(c)
    \/ \E c \in Conns : ChannelFailed(c)
    \/ \E c \in Conns : ConnClose(c)
    \/ RedisError
    \/ openRedisConnection

Spec == Init /\ [][Next]_vars

\* ------------------------------------------------- the compositor alone
\* The compositor on its own: every stage event whose fragments carry up to
\* MaxOps operations each is composed once.
OpStates(frag) == { [ops |-> Ops(frag, k)] : k \in 0..MaxOps }

CalStates ==
    { [ops |-> Ops("cal", k), anchor |-> Anchor(id, <<"/calendar/42">>)] :
          k \in 0..MaxOps, id \in {"42", "43"} }

BtcHeadStates ==
    { [ops |-> Ops("btchead", k), anchor |-> [anchor_id |-> id]] :
          k \in 0..MaxOps, id \in {"0007", "0008"} }

ComposeInputs ==
    { [stage |-> "input", type |-> "cal",
       messageObj |-> MessageObj("ab12", "h1", a, c, Undefined, Undefined, Undefined)] :
          a \in OpStates("agg"), c \in CalStates }
    \cup
    { [stage |-> "input", type |-> "btc",
       messageObj |-> MessageObj("ab12", "h1", a, c, g, t, b)] :
          a \in OpStates("agg"), c \in CalStates, g \in OpStates("anchor_agg"),
          t \in OpStates("btctx"), b \in BtcHeadStates }

InitCompose ==
    /\ amqpChannel = Null
    /\ redis = RedisClient
    /\ conns = [c \in Conns |-> "none"]
    /\ opening = 1
    /\ store = [h \in HashIds |-> NoEntry]
    /\ subs = [h \in HashIds |-> NoSub]
    /\ msgs = [m \in Msgs |-> IdleMsg]
    /\ outbox = <<>>
    /\ composed \in ComposeInputs
    /\ lastSet = [h \in HashIds |-> Null]
    /\ expireAt = [h \in HashIds |-> Null]
    /\ now = FirstInstant
    /\ apiRedis = RedisClient
    /\ request = NoRequest
    /\ hashChannel = Null
    /\ nistLatest = NullProof
    /\ nistLatestEpoch = NullProof
    /\ nistGiven = NullProof
    /\ enforcePrivateNodeStake = FALSE
    /\ aggQueue = <<>>
    /\ post = NoRequest
    /\ InitAcc

\* lines 52-54 of generateCALProof
ComposeCAL ==
    /\ composed.stage = "input"
    /\ composed.type = "cal"
    /\ composed' = [composed EXCEPT !.stage = "composed"]
                       @@ [proof |-> CALProofOf(composed.messageObj)]
    /\ UNCHANGED <<amqpChannel, redis, conns, opening, store, subs, msgs, outbox, lastSet, expireAt, apiVars, hashVars, accVars>>

\* lines 133-136 of generateBTCProof
ComposeBTC ==
    /\ composed.stage = "input"
    /\ composed.type = "btc"
    /\ composed' = [composed EXCEPT !.stage = "composed"]
                       @@ [proof |-> BTCProofOf(composed.messageObj)]
    /\ UNCHANGED <<amqpChannel, redis, conns, opening, store, subs, msgs, outbox, lastSet, expireAt, apiVars, hashVars, accVars>>

NextCompose == ComposeCAL \/ ComposeBTC

SpecCompose == InitCompose /\ [][NextCompose]_vars

\* --------------------------------------------------------------- the claims
\* the pipeline of delivery m has ended: its handler returned or threw and no
\* callback of it is pending
Finished(m) == msgs[m].pc \in {"done", "threw"}

Did(m, what) == \E i \in DOMAIN msgs[m].hist : msgs[m].hist[i] = what

\* the acknowledgment calls issued for delivery m, in order
Kinds(m) == [i \in DOMAIN msgs[m].decisions |-> msgs[m].decisions[i].kind]

\* the notifications published by the pipeline of delivery m
NotesOf(m) == { i \in DOMAIN outbox : outbox[i].of = m }

StageEvent(m) == msgs[m].pc # "idle" /\ ~JSONparseThrows(msgs[m].msg.content)

\* C1: for every delivery, whatever its type tag and whatever the outcome of
\* decode, schema check, store write, subscription lookup and publish, the
\* number of ack plus nack calls never exceeds one.
C1_AtMostOneDecision == \A m \in Msgs : Len(msgs[m].decisions) <= 1

\* one delivery acked on the schema-invalid path and another decided by the
\* waterfall's final callback after its publish was confirmed
C1_Witness ==
    \E m, k \in Msgs :
        /\ Did(m, "schema_invalid") /\ Kinds(m) = <<"ack">>
        /\ Did(k, "pub_ok") /\ Kinds(k) = <<"ack">>

\* C2: every delivery reaches an acknowledgment decision, for every type tag:
\* once its pipeline has ended, an ack or a nack was issued for it.
C2_EveryDeliveryDecided == \A m \in Msgs : Finished(m) => Len(msgs[m].decisions) >= 1

\* C3: a delivery whose type tag is none of cal, btc, eth is acked, not
\* nacked, and writes nothing to the proof store and publishes nothing.
C3_UnknownTypeAcked ==
    \A m \in Msgs :
        (Finished(m) /\ msgs[m].msg.type \notin {"cal", "btc", "eth"}) =>
            /\ Kinds(m) = <<"ack">>
            /\ ~Did(m, "set_call")
            /\ NotesOf(m) = {}

\* C4: a CAL or BTC event whose composed document fails the schema check is
\* acked, never nacked; its pipeline writes nothing to the proof store, looks
\* up no subscription and publishes nothing.
C4_SchemaInvalidAcked ==
    \A m \in Msgs :
        (Finished(m) /\ Did(m, "schema_invalid")) =>
            /\ Kinds(m) = <<"ack">>
            /\ ~Did(m, "set_call")
            /\ ~Did(m, "hget_call")
            /\ NotesOf(m) = {}

\* C5: for a CAL or BTC event with a schema-valid document, a persistence
\* failure (the encoding returns an error, the store write returns an error,
\* or the store handle is null at the write) ends in a nack: the message is
\* not acked and nothing is published.
C5_PersistenceFailureNacked ==
    \A m \in Msgs :
        (Finished(m) /\ (Did(m, "enc_err") \/ Did(m, "set_err") \/ Did(m, "set_throw"))) =>
            /\ Kinds(m) = <<"nack">>
            /\ NotesOf(m) = {}

\* C6: when the proof was stored and the publish of the notification fails,
\* the message is nacked, not acked, and the stored entry stays in the store.
C6_PublishFailureNacked ==
    \A m \in Msgs :
        (Finished(m) /\ Did(m, "pub_err")) =>
            /\ Kinds(m) = <<"nack">>
            /\ store[JSONparse(msgs[m].msg.content).hash_id] # NoEntry

\* C7: a cal or btc message whose payload is no JSON, or that lacks a fragment
\* its stage needs, is acked and dropped: acked, never nacked, nothing written
\* to the store, nothing published.
C7_MalformedAcked ==
    \A m \in Msgs :
        (Finished(m) /\ (Did(m, "parse_throw") \/ Did(m, "compose_throw"))) =>
            /\ Kinds(m) = <<"ack">>
            /\ ~Did(m, "set_call")
            /\ NotesOf(m) = {}

IsSubscription(res) == ~NoSubscription(res)

\* C8, as claimed: with a subscription {api_id: X, cx_id: Y} for the hash id
\* of a stage event (cal, btc or eth), one processing of the event publishes
\* exactly one notification, with header api_id = X and body {cx_id: Y,
\* hash_id: H}; with no subscription it publishes none.
C8_ExactlyOnePerStageEvent ==
    \A m \in Msgs :
        (Finished(m) /\ StageEvent(m) /\ msgs[m].msg.type \in {"cal", "btc", "eth"}) =>
            LET h == JSONparse(msgs[m].msg.content).hash_id
            IN  /\ IsSubscription(subs[h]) =>
                    /\ Cardinality(NotesOf(m)) = 1
                    /\ \A i \in NotesOf(m) :
                           outbox[i].note = [ headers |-> [api_id |-> subs[h].api_id],
                                              body |-> [cx_id |-> subs[h].cx_id, hash_id |-> h] ]
                /\ subs[h] = NoSub => NotesOf(m) = {}

\* C8, amended: one processing of a stage event for H publishes at most one
\* notification, and exactly one when it ends with an ack of a stored proof
\* while a subscription {api_id: X, cx_id: Y} exists for H; every notification
\* published has header api_id = X and body {cx_id: Y, hash_id: H} of the
\* subscription read under H; with no subscription none is published.
C8_NotificationRouting ==
    \A m \in Msgs :
        StageEvent(m) =>
            LET h == JSONparse(msgs[m].msg.content).hash_id
            IN  /\ Cardinality(NotesOf(m)) <= 1
                /\ \A i \in NotesOf(m) :
                       /\ IsSubscription(subs[h])
                       /\ msgs[m].sub = subs[h]
                       /\ outbox[i].note = [ headers |-> [api_id |-> subs[h].api_id],
                                             body |-> [cx_id |-> subs[h].cx_id, hash_id |-> h] ]
                /\ subs[h] = NoSub => NotesOf(m) = {}
                /\ (Kinds(m) = <<"ack">> /\ Did(m, "set_ok") /\ IsSubscription(subs[h])) =>
                       Cardinality(NotesOf(m)) = 1

\* a BTC event for h2 acked after its one notification went to instance X,
\* and a CAL event for h1, which has no subscription, acked with none
C8_Witness ==
    \E m, k \in Msgs :
        /\ msgs[m].msg.type = "btc" /\ Kinds(m) = <<"ack">> /\ Did(m, "pub_ok")
        /\ JSONparse(msgs[m].msg.content).hash_id = "h2"
        /\ Cardinality(NotesOf(m)) = 1
        /\ \A i \in NotesOf(m) : outbox[i].note.headers.api_id = "X"
        /\ msgs[k].msg.type = "cal" /\ Kinds(k) = <<"ack">> /\ Did(k, "hget_none")
        /\ subs["h1"] = NoSub
        /\ NotesOf(k) = {}

IsAnchorNode(op) == "anchors" \in DOMAIN op

AnchorNodes(ops) == { i \in 1..Len(ops) : IsAnchorNode(ops[i]) }

\* C9: for a CAL event the composed document has exactly one root branch,
\* labelled cal_anchor_branch, with no sub-branch; its ops are the aggregation
\* ops, then the calendar ops, in their order, then exactly one anchor node of
\* type cal with the calendar's anchor_id and uris: |agg| + |cal| + 1 ops.
C9_CalRootBranch ==
    (composed.stage = "composed" /\ composed.type = "cal") =>
        LET o == composed.messageObj
            b == composed.proof.branches
            n == Len(o.agg_state.ops)
            k == Len(o.cal_state.ops)
        IN  /\ Len(b) = 1
            /\ b[1].label = "cal_anchor_branch"
            /\ "branches" \notin DOMAIN b[1]
            /\ Len(b[1].ops) = n + k + 1
            /\ \A i \in 1..n : b[1].ops[i] = o.agg_state.ops[i]
            /\ \A i \in 1..k : b[1].ops[n + i] = o.cal_state.ops[i]
            /\ AnchorNodes(b[1].ops) = {n + k + 1}
            /\ b[1].ops[n + k + 1].anchors =
                   << [ type |-> "cal", anchor_id |-> o.cal_state.anchor.anchor_id,
                        uris |-> o.cal_state.anchor.uris ] >>

\* a CAL event with two aggregation ops and one calendar op, composed
C9_Witness ==
    /\ composed.stage = "composed"
    /\ composed.type = "cal"
    /\ Len(composed.messageObj.agg_state.ops) = 2
    /\ Len(composed.messageObj.cal_state.ops) = 1
    /\ composed.proof.branches[1].ops[3] = Op("cal", 1)
    /\ Len(composed.proof.branches[1].ops) = 4

\* C10: for a BTC event the composed document has exactly one root branch and
\* exactly one sub-branch, labelled btc_anchor_branch, one level under it; the
\* root branch's ops are those of the CAL event with the same aggregation and
\* calendar fragments; the sub-branch's ops are the anchor-aggregation ops,
\* then the transaction ops, then the block-header ops, then exactly one
\* anchor node of type btc with the block header's anchor_id.
C10_BtcNestedBranch ==
    (composed.stage = "composed" /\ composed.type = "btc") =>
        LET o == composed.messageObj
            b == composed.proof.branches
            g == Len(o.anchor_agg_state.ops)
            t == Len(o.btctx_state.ops)
            h == Len(o.btchead_state.ops)
            calOnly == [label |-> b[1].label, ops |-> b[1].ops]
        IN  /\ Len(b) = 1
            /\ <<calOnly>> = CALProofOf([o EXCEPT !.anchor_agg_state = Undefined,
                                                  !.btctx_state = Undefined,
                                                  !.btchead_state = Undefined]).branches
            /\ AnchorNodes(b[1].ops) = {Len(b[1].ops)}
            /\ "branches" \in DOMAIN b[1]
            /\ Len(b[1].branches) = 1
            /\ LET s == b[1].branches[1]
               IN  /\ s.label = "btc_anchor_branch"
                   /\ "branches" \notin DOMAIN s
                   /\ Len(s.ops) = g + t + h + 1
                   /\ \A i \in 1..g : s.ops[i] = o.anchor_agg_state.ops[i]
                   /\ \A i \in 1..t : s.ops[g + i] = o.btctx_state.ops[i]
                   /\ \A i \in 1..h : s.ops[g + t + i] = o.btchead_state.ops[i]
                   /\ AnchorNodes(s.ops) = {g + t + h + 1}
                   /\ s.ops[g + t + h + 1].anchors =
                          << [ type |-> "btc",
                               anchor_id |-> o.btchead_state.anchor.anchor_id ] >>

\* a BTC event with one anchor-aggregation op, one transaction op and two
\* block-header ops, composed
C10_Witness ==
    /\ composed.stage = "composed"
    /\ composed.type = "btc"
    /\ Len(composed.messageObj.anchor_agg_state.ops) = 1
    /\ Len(composed.messageObj.btctx_state.ops) = 1
    /\ Len(composed.messageObj.btchead_state.ops) = 2
    /\ composed.proof.branches[1].branches[1].ops[2] = Op("btctx", 1)
    /\ Len(composed.proof.branches[1].branches[1].ops) = 5

\* C11: processing an eth event is accepted without error and mutates nothing:
\* its handler returns at once without throwing, it calls neither redis.set
\* nor redis.hgetall, it publishes no notification, and the step that
\* processes it leaves every proof entry, every subscription record and the
\* published notifications as they were.
C11_EthMutatesNothing ==
    /\ [](\A m \in Msgs :
             msgs[m].msg.type = "eth" =>
                 /\ msgs[m].pc = "done"
                 /\ msgs[m].hist = <<"eth_logged">>
                 /\ NotesOf(m) = {}
                 /\ \A h \in HashIds : lastSet[h] # m)
    /\ [][\A m \in Msgs :
             (msgs[m].pc = "idle" /\ msgs'[m].msg.type = "eth") =>
                 (store' = store /\ subs' = subs /\ outbox' = outbox)]_vars

\* an eth event was processed while the proof store held an entry
C11_Witness ==
    \E m \in Msgs, h \in HashIds :
        msgs[m].msg.type = "eth" /\ Finished(m) /\ store[h] # NoEntry

DocumentOf(m) ==
    IF msgs[m].msg.type = "cal"
    THEN CALProofOf(JSONparse(msgs[m].msg.content))
    ELSE BTCProofOf(JSONparse(msgs[m].msg.content))

\* C13: last write wins.  Under every interleaving of the pipelines, a hash
\* id no redis.set has completed for has no entry, and otherwise its entry is
\* exactly the encoded document of the one cal or btc event whose redis.set
\* completed last, whole and schema-valid, with the full time to live of that
\* write; this holds in every state, so for every intermediate value too.
C13_LastWriteWins ==
    \A h \in HashIds :
        IF lastSet[h] = Null THEN store[h] = NoEntry
        ELSE LET w == lastSet[h]
             IN  /\ msgs[w].msg.type \in {"cal", "btc"}
                 /\ hashIdOf(msgs[w]) = h
                 /\ Did(w, "set_ok")
                 /\ SchemaValid(DocumentOf(w))
                 /\ store[h] = Entry(objectToBase64(DocumentOf(w)))

\* a cal and a btc event for one hash id were processed concurrently and the
\* one delivered first completed its store write last
C13_Witness ==
    \E m, k \in Msgs, h \in HashIds :
        /\ m < k /\ Did(m, "set_ok") /\ Did(k, "set_ok")
        /\ hashIdOf(msgs[m]) = h /\ hashIdOf(msgs[k]) = h
        /\ msgs[m].msg.type # msgs[k].msg.type
        /\ lastSet[h] = m

\* the event of delivery m carries every fragment its handler reads
Composable(m) ==
    /\ msgs[m].msg.type \in {"cal", "btc"}
    /\ ~JSONparseThrows(msgs[m].msg.content)
    /\ LET messageObj == JSONparse(msgs[m].msg.content)
       IN  /\ ~addCalendarBranchThrows(messageObj.agg_state, messageObj.cal_state)
           /\ msgs[m].msg.type = "btc" =>
                  ~addBtcBranchThrows(messageObj.anchor_agg_state, messageObj.btctx_state,
                                      messageObj.btchead_state)

\* C14: each event rebuilds its document from its own fragments.  The
\* document composed for a cal or btc delivery, and the value handed to
\* redis.set, are functions of that event's fields alone, whatever the proof
\* store holds and whatever was processed before; the document of a btc event
\* has the calendar branch as its one root branch and the btc branch as the
\* one branch nested in it, also when no cal event for the hash id preceded.
C14_RebuiltFromOwnFragments ==
    \A m \in Msgs :
        Composable(m) =>
            /\ msgs[m].proof = DocumentOf(m)
            /\ Did(m, "set_call") => msgs[m].proofBase64 = objectToBase64(DocumentOf(m))
            /\ msgs[m].msg.type = "btc" =>
                   /\ Len(msgs[m].proof.branches) = 1
                   /\ msgs[m].proof.branches[1].label = "cal_anchor_branch"
                   /\ Len(msgs[m].proof.branches[1].branches) = 1
                   /\ msgs[m].proof.branches[1].branches[1].label = "btc_anchor_branch"

\* a btc event was stored for a hash id no cal event was delivered for
C14_Witness ==
    \E m \in Msgs :
        /\ msgs[m].msg.type = "btc" /\ Did(m, "set_ok")
        /\ \A k \in Msgs :
               (msgs[k].msg.type = "cal" /\ ~JSONparseThrows(msgs[k].msg.content)) =>
                   hashIdOf(msgs[k]) # hashIdOf(msgs[m])

\* C15: a pipeline touches only its own key.  Whenever the proof entry of a
\* hash id is created, changed or removed by a step, that step is the
\* redis.set callback of a delivery whose event carries that same hash id;
\* so processing an event for H leaves the entry of every other hash id as it
\* was, under every interleaving.
C15_OtherKeysUntouched ==
    [][\A h \in HashIds :
           store'[h] # store[h] =>
               \E m \in Msgs :
                   /\ msgs[m].pc = "set" /\ msgs'[m].pc # "set"
                   /\ hashIdOf(msgs[m]) = h]_vars

\* events for two different hash ids were stored, one after the other
C15_Witness ==
    \E m, k \in Msgs :
        /\ Did(m, "set_ok") /\ Did(k, "set_ok")
        /\ hashIdOf(msgs[m]) # hashIdOf(msgs[k])
        /\ store[hashIdOf(msgs[m])] # NoEntry /\ store[hashIdOf(msgs[k])] # NoEntry

\* 'sub:' + hash_id, the key of the subscription record of a hash id
SubKey(hashId) == "sub:" \o hashId

\* C16: the engine only reads subscriptions.  No step of the engine changes
\* any subscription record, and every redis.set the engine issues is keyed by
\* the plain hash id of its event, which is no subscription key.
C16_SubscriptionsReadOnly ==
    /\ [][subs' = subs]_vars
    /\ [](\A m \in Msgs :
             Did(m, "set_call") =>
                 /\ hashIdOf(msgs[m]) \in HashIds
                 /\ \A h \in HashIds : hashIdOf(msgs[m]) # SubKey(h))

\* a subscription was read and its notification confirmed, after the proof
\* was stored, and the record is still what was read
C16_Witness ==
    \E m \in Msgs :
        /\ Did(m, "set_ok") /\ Did(m, "pub_ok")
        /\ ~NoSubscription(subs[hashIdOf(msgs[m])])
        /\ subs[hashIdOf(msgs[m])] = msgs[m].sub

\* C17: on loss of the broker connection every pipeline in flight still
\* reaches its ack or nack without failing: no pipeline attempts its
\* decision on a null channel handle.
C17_DecisionNeverOnNullChannel ==
    \A m \in Msgs : ~Did(m, "decide_throw")

\* the hash id results of the request being served or answered
Results == IF "hashIdResults" \in DOMAIN request THEN request.hashIdResults ELSE <<>>

\* C19: the time to live of every stored proof entry, in seconds, is the
\* greatest age at which the proofs endpoint still fetches, in milliseconds:
\* both are PROOF_EXPIRE_MINUTES, times 60 and times 60 * 1000.  And the
\* endpoint returns no proof for a hash id whose embedded submission time was,
\* when the handler read the clock, more than that age in the past.
C19_TtlEqualsFetchAge ==
    /\ \A h \in HashIds :
           store[h] # NoEntry =>
               /\ store[h].ex = PROOF_EXPIRE_MINUTES * 60
               /\ store[h].ex * 1000 = maxDiff
    /\ \A i \in DOMAIN Results :
           Results[i].proof # NullProof =>
               /\ uuidValidate(Results[i].hash_id)
               /\ Results[i].at - uuidTimeV1(Results[i].hash_id)
                      <= PROOF_EXPIRE_MINUTES * 60 * 1000

\* one answer holding a proof fetched at the very last eligible instant and a
\* null for a hash id past it whose entry was still in the store
C19_Witness ==
    /\ request.pc = "sent"
    /\ \E i, k \in DOMAIN Results :
           /\ Results[i].proof # NullProof
           /\ Results[i].at - uuidTimeV1(Results[i].hash_id) = maxDiff
           /\ Results[k].why = "old"
           /\ Results[k].proof = NullProof
           /\ Present(Results[k].hash_id)

\* in the pipeline of delivery m, a happened and b happened after it
Before(m, a, b) ==
    \E i, j \in DOMAIN msgs[m].hist :
        i < j /\ msgs[m].hist[i] = a /\ msgs[m].hist[j] = b

Acked(m) == \E i \in DOMAIN msgs[m].decisions : msgs[m].decisions[i].kind = "ack"

\* C20: the order of the success path of a cal or btc event.  A notification
\* is handed to the broker only after the store write of the same event
\* succeeded; and a delivery whose document was schema-valid is acked only
\* after its store write succeeded, after the subscription lookup was
\* answered and, when a subscription was found, after the broker confirmed
\* the publish.  Hence an acked cal or btc delivery with a schema-valid
\* document has stored its proof.
C20_PipelineOrdering ==
    \A m \in Msgs :
        /\ (NotesOf(m) # {} \/ Did(m, "pub_call")) => Before(m, "set_ok", "pub_call")
        /\ ( /\ msgs[m].msg.type \in {"cal", "btc"}
             /\ Acked(m)
             /\ msgs[m].proof # NoProof
             /\ SchemaValid(msgs[m].proof) ) =>
               /\ Before(m, "set_call", "set_ok")
               /\ lastSet[hashIdOf(msgs[m])] # Null
               /\ store[hashIdOf(msgs[m])] # NoEntry
               /\ \/ Before(m, "set_ok", "hget_none")
                  \/ Before(m, "set_ok", "hget_sub") /\ Before(m, "pub_call", "pub_ok")

\* one delivery acked after store and confirmed publish, another acked after
\* store with no subscription found
C20_Witness ==
    \E m, k \in Msgs :
        /\ Acked(m) /\ Did(m, "set_ok") /\ Did(m, "pub_ok")
        /\ Acked(k) /\ Did(k, "set_ok") /\ Did(k, "hget_none")

\* C21: the absence of a subscription is a silent no-op: when the lookup
\* answers nothing, or a record without api_id or without cx_id, the proof
\* has been stored, no notification is published and the message is acked.
C21_NoSubscriptionAcked ==
    \A m \in Msgs :
        (Did(m, "hget_none") /\ Finished(m)) =>
            /\ Did(m, "set_ok")
            /\ NotesOf(m) = {}
            /\ Kinds(m) = <<"ack">>

\* C22: when the subscription lookup fails with a store error, after the
\* proof was stored, the message is nacked, no notification is published and
\* the stored proof entry stays in place.
C22_LookupFailureNacked ==
    \A m \in Msgs :
        (Did(m, "hget_err") /\ Finished(m)) =>
            /\ Did(m, "set_ok")
            /\ NotesOf(m) = {}
            /\ store[hashIdOf(msgs[m])] # NoEntry
            /\ Kinds(m) = <<"nack">>

\* C23: every value the engine writes to the proof store under a key is the
\* encoding of a document that passed the schema validation and whose
\* hash_id is that key: this holds of every value handed to redis.set and of
\* every entry in the store.
C23_StoredValuesValid ==
    /\ \A m \in Msgs :
           Did(m, "set_call") =>
               /\ SchemaValid(msgs[m].proof)
               /\ msgs[m].proof.hash_id = hashIdOf(msgs[m])
               /\ msgs[m].proofBase64 = objectToBase64(msgs[m].proof)
    /\ \A h \in HashIds :
           store[h] # NoEntry =>
               /\ "base64" \in DOMAIN store[h].value
               /\ SchemaValid(store[h].value.base64)
               /\ store[h].value.base64.hash_id = h

\* a schema-valid document was stored while a schema-invalid one was
\* composed, acked and kept out of the store
C23_Witness ==
    \E m, k \in Msgs :
        /\ Did(m, "set_ok") /\ store[hashIdOf(msgs[m])] # NoEntry
        /\ Did(k, "schema_invalid") /\ ~Did(k, "set_call")

\* the stored document has the btc sub-branch nested in its root branch
HasBtcBranch(entry) ==
    /\ entry # NoEntry
    /\ "branches" \in DOMAIN entry.value.base64.branches[1]

\* C24 as stated: stored proofs never regress.  Once the entry of a hash id
\* contains the btc sub-branch, every later content of that entry, while it
\* exists, contains it too, under every delivery and redelivery order.
C24_NeverRegresses ==
    [][\A h \in HashIds :
           (HasBtcBranch(store[h]) /\ store'[h] # NoEntry) => HasBtcBranch(store'[h])]_vars

\* C24 amended: the entry of a hash id contains the btc sub-branch exactly
\* when the event whose store write completed last was a btc event; an entry
\* that contains it loses it only by the completed store write of a cal event
\* for the same hash id, which replaces the document.
C24_BtcBranchIffLastWriteBtc ==
    /\ [](\A h \in HashIds :
             store[h] # NoEntry =>
                 (HasBtcBranch(store[h]) <=> msgs[lastSet[h]].msg.type = "btc"))
    /\ [][\A h \in HashIds :
             (HasBtcBranch(store[h]) /\ store'[h] # NoEntry /\ ~HasBtcBranch(store'[h])) =>
                 \E m \in Msgs :
                     /\ msgs[m].pc = "set" /\ msgs'[m].pc # "set"
                     /\ msgs[m].msg.type = "cal"
                     /\ hashIdOf(msgs[m]) = h]_vars

\* a cal event and then a btc event were stored for one hash id, and the
\* entry has the sub-branch
C24_Witness ==
    \E m, k \in Msgs, h \in HashIds :
        /\ Did(m, "set_ok") /\ Did(k, "set_ok")
        /\ hashIdOf(msgs[m]) = h /\ hashIdOf(msgs[k]) = h
        /\ msgs[m].msg.type = "cal" /\ msgs[k].msg.type = "btc"
        /\ lastSet[h] = k
        /\ HasBtcBranch(store[h])

\* C25: the ack or nack of a message is always issued on the broker channel
\* that delivered it, also after a new channel was installed in amqpChannel.
C25_DecisionOnDeliveringChannel ==
    \A m \in Msgs :
        \A i \in DOMAIN msgs[m].decisions : msgs[m].decisions[i].chan = msgs[m].chan

\* C26: a stored proof does not expire before its hash id passes the age
\* cutoff of the proofs endpoint.  For every hash id a proof was stored for,
\* at every instant at which the age check admits the id (now minus the
\* submission time is at most PROOF_EXPIRE_MINUTES), the entry is present;
\* store writes happen at or after the submission time the id embeds.
C26_PresentWhileAdmitted ==
    \A h \in HashIds :
        (expireAt[h] # Null /\ now - uuidTimeV1(h) <= PROOF_EXPIRE_MINUTES * 60 * 1000) =>
            /\ Present(h)
            /\ RedisGet(h) = store[h].value

\* a proof stored at the very instant its hash was submitted, at the last
\* instant the age check admits it, which is the instant its key expires at
C26_Witness ==
    \E h \in HashIds :
        /\ expireAt[h] # Null
        /\ now - uuidTimeV1(h) = maxDiff
        /\ expireAt[h] = now
        /\ Present(h)

\* the ids a served request asked for, trimmed, in request order
AskedIds == [i \in DOMAIN RequestedIds(request.req) |-> trim(RequestedIds(request.req)[i])]

\* C27: getProofsByIDV1Async answers a request that passed its checks with
\* one entry per requested hash id, in request order; the proof of an entry
\* is null when the id is no version 1 UUID, when it is older than the age
\* cutoff, when the store read fails or when decoding fails; and a failure
\* for one id never fails the whole request: no request with results to
\* fetch ends without a response.
C27_OneEntryPerId ==
    /\ request.pc # "threw"
    /\ request.pc = "sent" =>
           /\ Len(Results) = Len(AskedIds)
           /\ \A i \in DOMAIN Results :
                  /\ Results[i].hash_id = AskedIds[i]
                  /\ ~uuidValidate(AskedIds[i]) => Results[i].proof = NullProof
                  /\ Results[i].why \in {"invalid", "old", "get_err", "decode_err"} =>
                         Results[i].proof = NullProof

\* the request passed the checks made before the await
ChecksPassedBeforeAwait(req) ==
    /\ ~IsUndefined(req.authorization)
    /\ Len(req.authorization.value) = 2
    /\ IsBearer(req.authorization.value[1])
    /\ ~IsUndefined(req.tnt_address)
    /\ TntAddressValid(req.tnt_address.value)
    /\ ~IsUndefined(req.hash_id) => uuidValidate(req.hash_id.value)
    /\ Len(RequestedIds(req)) >= 1
    /\ Len(RequestedIds(req)) <= GET_PROOFS_MAX_REST

\* the request passed every check: its tnt-address is a registered node's
\* and its bearer value is the hmac of that node's address
ChecksPassed(req) ==
    /\ ChecksPassedBeforeAwait(req)
    /\ \E n \in RegisteredNodes :
           /\ n.tntAddr = toLowerCase(req.tnt_address.value)
           /\ req.authorization.value[2] = Hmac(n.hmacKey, n.tntAddr)

\* C28: getProofsByIDV1Async reads the proof store only for a request that
\* passed every check: the node lookup is made only after the checks of the
\* headers and of the id count passed, results are prepared and redis.get is
\* called only when also the node is registered and the bearer value is its
\* hmac, and a request ended by an error has made no store read.
C28_NoReadBeforeChecks ==
    /\ request.pc = "findOne" => ChecksPassedBeforeAwait(request.req)
    /\ "hashIdResults" \in DOMAIN request => ChecksPassed(request.req)
    /\ request.pc = "error" => (request.reads = 0 /\ Results = <<>>)
    /\ ("reads" \in DOMAIN request /\ request.reads > 0) =>
           (request.pc # "error" /\ ChecksPassed(request.req))

\* a request that passed every check has read the store for two hash ids
C28_Witness ==
    /\ request.pc \in {"fetching", "sent"}
    /\ request.reads = 2
    /\ ChecksPassed(request.req)

\* ---------------------------------------------------------------------------
\* The hash endpoint, postHashV1Async, and the NIST value it embeds.
\* A JavaScript string whose characters matter is a sequence of one-character
\* strings: <<"1", "2", ":", "f">> is '12:f'.

\* 1000000000000 in the source, the least timestamp read as milliseconds;
\* scaled by 1000 to stay within the integers of the checker
MillisecondsAbove == 1000000000

DigitChars == <<"0", "1", "2", "3", "4", "5", "6", "7", "8", "9">>

IsDigit(char) == \E i \in DOMAIN DigitChars : DigitChars[i] = char

DigitValue(char) == (CHOOSE i \in DOMAIN DigitChars : DigitChars[i] = char) - 1

\* String.prototype.split(':')[0]: the characters before the first colon
RECURSIVE splitFirst(_)
splitFirst(chars) ==
    IF chars = <<>> \/ Head(chars) = ":" THEN <<>>
    ELSE <<Head(chars)>> \o splitFirst(Tail(chars))

\* the leading digits of a string
RECURSIVE LeadingDigits(_)
LeadingDigits(chars) ==
    IF chars = <<>> \/ ~IsDigit(Head(chars)) THEN <<>>
    ELSE <<Head(chars)>> \o LeadingDigits(Tail(chars))

\* the number a string of digits denotes
RECURSIVE DecimalValue(_)
DecimalValue(digits) ==
    IF digits = <<>> THEN 0
    ELSE 10 * DecimalValue(SubSeq(digits, 1, Len(digits) - 1))
         + DigitValue(digits[Len(digits)])

NaN == [NaN |-> TRUE]

\* parseInt: an optional sign and the leading digits; NaN when there is no digit
parseInt(chars) ==
    LET negative == chars # <<>> /\ Head(chars) = "-"
        digits == LeadingDigits(IF negative THEN Tail(chars) ELSE chars)
    IN  IF digits = <<>> THEN NaN
        ELSE Given(IF negative THEN 0 - DecimalValue(digits) ELSE DecimalValue(digits))

\* the values setNistLatest is called with; Undefined is a value that is no string
NistValues ==
    { Undefined,
      <<>>,
      <<"x", ":", "f">>,
      <<"0", ":", "f">>,
      <<"1", "2", ":", "f">>,
      <<"1", "2", "x", ":", "f">>,
      <<"-", "5", ":", "f">>,
      <<"9", "9", "9", "9", ":", "f">>,
      <<"1", "0", "0", "0", "0", "0", "0", "0", "0", "0", ":", "f">>,
      <<"1", "0", "0", "0", "0", "0", "0", "0", "0", "1", ":", "f">>,
      <<"1", "9", "9", "9", "9", "9", "9", "9", "9", "9", ":", "f">> }

\* updateNistVars with the division dropped: every timestamp is read as seconds
updateNistVarsAsSeconds(nistValue) ==
    IF nistValue = Undefined THEN [nistLatest |-> NullProof, nistLatestEpoch |-> NullProof]
    ELSE LET nistTimestampString == splitFirst(nistValue)
             nistTimestampInt == parseInt(nistTimestampString)
         IN  IF nistTimestampInt = NaN \/ nistTimestampInt = Given(0)
             THEN [nistLatest |-> NullProof, nistLatestEpoch |-> NullProof]
             ELSE [nistLatest |-> Given(nistValue),
                   nistLatestEpoch |-> nistTimestampInt]

\* updateNistVars: the two module variables after the call. A value that is no
\* string makes split throw, and the catch resets both, as does a timestamp
\* that parses to NaN or to 0.
updateNistVars(nistValue) ==
    IF nistValue = Undefined THEN [nistLatest |-> NullProof, nistLatestEpoch |-> NullProof]
    ELSE LET nistTimestampString == splitFirst(nistValue)
             nistTimestampInt == parseInt(nistTimestampString)
         IN  IF nistTimestampInt = NaN \/ nistTimestampInt = Given(0)
             THEN [nistLatest |-> NullProof, nistLatestEpoch |-> NullProof]
             ELSE [nistLatest |-> Given(nistValue),
                   nistLatestEpoch |->
                       Given(IF nistTimestampInt.value > MillisecondsAbove
                             THEN nistTimestampInt.value \div 1000
                             ELSE nistTimestampInt.value)]

setNistLatest(val) ==
    /\ nistLatest' = updateNistVars(val).nistLatest
    /\ nistLatestEpoch' = updateNistVars(val).nistLatestEpoch
    /\ nistGiven' = Given(val)
    /\ UNCHANGED <<coreVars, apiVars, accVars, hashChannel, enforcePrivateNodeStake, aggQueue, post>>

setAMQPChannel(chan) ==
    /\ hashChannel' = chan
    /\ UNCHANGED <<coreVars, apiVars, accVars, nistLatest, nistLatestEpoch, nistGiven,
                   enforcePrivateNodeStake, aggQueue, post>>

\* (enabled === 'true')
setEnforcePrivateStakeState(enabled) ==
    /\ enforcePrivateNodeStake' = (enabled = "true")
    /\ UNCHANGED <<coreVars, apiVars, accVars, hashChannel, nistLatest, nistLatestEpoch, nistGiven,
                   aggQueue, post>>

\* what the body of a submission carries under 'hash': nothing, a number, a
\* string that is no hex string, a hex string
HashParams == { Undefined, [number |-> 12], Given("zz"), Given("AB12") }

\* _.isString(req.params.hash) and /^([a-fA-F0-9]{2}){20,64}$/, on hashes
\* shortened to two hex pairs
IsValidHash(param) == param \in {Given("AB12"), Given("ab12")}

PostRequests ==
    [ contentType : {"application/json", "text/plain"},
      authorization : AuthorizationHeaders,
      tnt_address : TntAddressHeaders,
      hash : HashParams ]

\* Math.ceil(Date.now() / 1000) + 1
NTPEpoch == (now + 999) \div 1000 + 1

\* a JavaScript value used as a condition: null and '' are falsy
Truthy(value) == value # NullProof /\ value # Given(<<>>)

\* the request ends with next(new restify.<name>(message))
PostFailed(req, name, message) ==
    [pc |-> "error", req |-> req, error |-> [name |-> name, message |-> message],
     response |-> NullProof, answers |-> 1, nistSeen |-> nistLatest,
     noChannel |-> FALSE, publishFailed |-> FALSE, regNode |-> NoNode, hist |-> <<>>]

\* the request waits at an await
PostWaiting(req, at, regNode) ==
    [pc |-> at, req |-> req, error |-> NullProof, response |-> NullProof, answers |-> 0,
     nistSeen |-> nistLatest, noChannel |-> FALSE, publishFailed |-> FALSE,
     regNode |-> regNode, hist |-> <<>>]

\* lines 173-231: the checks before the first await, in their order
postHashV1Async(req) ==
    /\ post.pc = "none"
    /\ post' =
         IF req.contentType # "application/json"
         THEN PostFailed(req, "InvalidArgumentError", "invalid content type")
         ELSE IF IsUndefined(req.authorization)
         THEN PostFailed(req, "InvalidCredentialsError", "missing authorization key")
         ELSE IF Len(req.authorization.value) # 2 \/ ~IsBearer(req.authorization.value[1])
         THEN PostFailed(req, "InvalidCredentialsError", "bad authorization value")
         ELSE IF IsUndefined(req.tnt_address)
         THEN PostFailed(req, "InvalidCredentialsError", "missing tnt-address key")
         ELSE IF ~TntAddressValid(req.tnt_address.value)
         THEN PostFailed(req, "InvalidCredentialsError", "invalid tnt-address value")
         ELSE IF IsUndefined(req.hash)
         THEN PostFailed(req, "InvalidArgumentError", "missing hash")
         ELSE IF ~IsValidHash(req.hash)
         THEN PostFailed(req, "InvalidArgumentError", "bad hash submitted")
         ELSE IF Truthy(nistLatest) /\ NTPEpoch < nistLatestEpoch.value
         THEN PostFailed(req, "InternalServerError", "Bad NTP time")
         ELSE IF hashChannel = Null
         THEN [PostFailed(req, "InternalServerError", "Message could not be delivered")
                 EXCEPT !.noChannel = TRUE]
         ELSE IF enforcePrivateNodeStake THEN PostWaiting(req, "balance", NoNode)
         ELSE PostWaiting(req, "hgetall", NoNode)
    /\ UNCHANGED <<coreVars, apiVars, accVars, hashChannel, nistLatest, nistLatestEpoch, nistGiven,
                   enforcePrivateNodeStake, aggQueue>>

\* the balance check failing closed: an error reading the key rejects too
BalanceCallbackFailClosed(outcome) ==
    /\ post.pc = "balance"
    /\ post' = IF outcome \in {"null", "throws"}
               THEN [post EXCEPT !.pc = "error", !.answers = @ + 1,
                        !.hist = Append(@, <<"balance", outcome>>),
                        !.error = [name |-> "NotAuthorizedError",
                                   message |-> "minimum balance"]]
               ELSE [post EXCEPT !.pc = "hgetall",
                        !.hist = Append(@, <<"balance", outcome>>)]
    /\ UNCHANGED <<coreVars, apiVars, accVars, hashChannel, nistLatest, nistLatestEpoch, nistGiven,
                   enforcePrivateNodeStake, aggQueue>>

\* lines 236-246: redis.get of the balance key returned null, a value, or threw
\* (a missing redis handle throws inside the same try)
BalanceCallback(outcome) ==
    /\ post.pc = "balance"
    /\ post' = IF outcome = "null"
               THEN [post EXCEPT !.pc = "error", !.answers = @ + 1,
                        !.hist = Append(@, <<"balance", outcome>>),
                        !.error = [name |-> "NotAuthorizedError",
                                   message |-> "minimum balance"]]
               ELSE [post EXCEPT !.pc = "hgetall",
                        !.hist = Append(@, <<"balance", outcome>>)]
    /\ UNCHANGED <<coreVars, apiVars, accVars, hashChannel, nistLatest, nistLatestEpoch, nistGiven,
                   enforcePrivateNodeStake, aggQueue>>

\* uuidv1({ msecs, node }): the id carries the time and the node bytes
uuidv1(msecs, node) == [uuid |-> <<msecs, node>>]

\* the five BLAKE2s bytes of `${timestampMS}:${length}:${hash}:${nist}`
blake2s(timestampMS, hash, hashNIST) == [blake2s |-> <<timestampMS, hash, hashNIST>>]

\* lines 62-135: the response to an accepted hash; processing_hints and
\* tnt_credit_balance are left out
generatePostHashResponse(hashParam, regNode) ==
    LET hash == toLowerCase(hashParam)
        hashNIST == IF Truthy(nistLatest) THEN nistLatest.value ELSE <<>>
        timestampMS == now
    IN  [hash_id |-> uuidv1(timestampMS, blake2s(timestampMS, hash, hashNIST)),
         hash |-> hash,
         nist |-> hashNIST,
         submitted_at |-> formatDateISO8601NoMs(timestampMS)]

\* the hash object of lines 296-300
hashObjOf(responseObj) ==
    [hash_id |-> responseObj.hash_id, hash |-> responseObj.hash, nist |-> responseObj.nist]

\* lines 276-307, from the hmac comparison to the call of sendToQueue, for
\* the node found. A null channel handle throws a TypeError inside the try of
\* line 302, which its catch answers.
Authorize(regNode) ==
    IF ~HmacMatches(post.req.authorization.value[2], regNode)
    THEN [post EXCEPT !.pc = "error", !.answers = @ + 1, !.regNode = regNode,
             !.error = [name |-> "InvalidCredentialsError", message |-> "bad hmac value"]]
    ELSE IF hashChannel = Null
    THEN [post EXCEPT !.pc = "error", !.answers = @ + 1, !.regNode = regNode,
             !.noChannel = TRUE,
             !.response = Given(generatePostHashResponse(post.req.hash.value, regNode)),
             !.error = [name |-> "InternalServerError",
                        message |-> "Message could not be delivered"]]
    ELSE [post EXCEPT !.pc = "sendToQueue", !.regNode = regNode,
             !.response = Given(generatePostHashResponse(post.req.hash.value, regNode))]

\* lines 254-261: redis.hgetall of the cached node returned it, returned
\* nothing, or threw; only a registered node is ever cached (line 268)
CachedNodeCallback(outcome) ==
    /\ post.pc = "hgetall"
    /\ LET tntAddrHeaderParam == toLowerCase(post.req.tnt_address.value)
       IN  /\ outcome = "hit" => findOne(tntAddrHeaderParam) # NoNode
           /\ post' = IF outcome = "hit"
                      THEN [Authorize(findOne(tntAddrHeaderParam))
                              EXCEPT !.hist = Append(@, <<"hgetall", outcome>>)]
                      ELSE [post EXCEPT !.pc = "findOne",
                              !.hist = Append(@, <<"hgetall", outcome>>)]
    /\ UNCHANGED <<coreVars, apiVars, accVars, hashChannel, nistLatest, nistLatestEpoch, nistGiven,
                   enforcePrivateNodeStake, aggQueue>>

\* lines 262-265 and 289-292: RegisteredNode.findOne returned or threw
RegisteredNodeCallback(throws) ==
    /\ post.pc = "findOne"
    /\ LET regNode == findOne(toLowerCase(post.req.tnt_address.value))
       IN  post' =
             IF throws
             THEN [post EXCEPT !.pc = "error", !.answers = @ + 1,
                      !.hist = Append(@, <<"findOne", "throws">>),
                      !.error = [name |-> "InternalServerError",
                                 message |-> "Could not query registered nodes"]]
             ELSE IF regNode = NoNode
             THEN [post EXCEPT !.pc = "error", !.answers = @ + 1,
                      !.hist = Append(@, <<"findOne", "null">>),
                      !.error = [name |-> "InvalidCredentialsError",
                                 message |-> "unknown tnt-address"]]
             ELSE [post EXCEPT !.pc = "hmset", !.regNode = regNode,
                      !.hist = Append(@, <<"findOne", "node">>)]
    /\ UNCHANGED <<coreVars, apiVars, accVars, hashChannel, nistLatest, nistLatestEpoch, nistGiven,
                   enforcePrivateNodeStake, aggQueue>>

\* lines 268-273: the cache write returned or threw, which is only logged
CacheWriteCallback(throws) ==
    /\ post.pc = "hmset"
    /\ post' = [Authorize(post.regNode)
                 EXCEPT !.hist = Append(@, <<"hmset", IF throws THEN "throws" ELSE "ok">>)]
    /\ UNCHANGED <<coreVars, apiVars, accVars, hashChannel, nistLatest, nistLatestEpoch, nistGiven,
                   enforcePrivateNodeStake, aggQueue>>

\* the publish with its catch dropped: the response is sent whatever happened
SendToQueueCallbackUncaught(err) ==
    /\ post.pc = "sendToQueue"
    /\ post' = [post EXCEPT !.pc = "sent", !.answers = @ + 1, !.publishFailed = err]
    /\ aggQueue' = IF err THEN aggQueue ELSE Append(aggQueue, hashObjOf(post.response.value))
    /\ UNCHANGED <<coreVars, apiVars, accVars, hashChannel, nistLatest, nistLatestEpoch, nistGiven,
                   enforcePrivateNodeStake>>

\* lines 302-311: sendToQueue returned, and the response is sent, or it threw
SendToQueueCallback(err) ==
    /\ post.pc = "sendToQueue"
    /\ post' = IF err
               THEN [post EXCEPT !.pc = "error", !.answers = @ + 1, !.publishFailed = TRUE,
                        !.error = [name |-> "InternalServerError",
                                   message |-> "Message could not be delivered"]]
               ELSE [post EXCEPT !.pc = "sent", !.answers = @ + 1]
    /\ aggQueue' = IF err THEN aggQueue ELSE Append(aggQueue, hashObjOf(post.response.value))
    /\ UNCHANGED <<coreVars, apiVars, accVars, hashChannel, nistLatest, nistLatestEpoch, nistGiven,
                   enforcePrivateNodeStake>>

InitHash == InitApi /\ apiRedis = RedisClient

\* the hash endpoint serving a submission while the channel and the NIST
\* value are set
NextHash ==
    \/ \E req \in PostRequests : postHashV1Async(req)
    \/ \E outcome \in {"null", "value", "throws"} : BalanceCallback(outcome)
    \/ \E outcome \in {"hit", "miss", "throws"} : CachedNodeCallback(outcome)
    \/ \E throws \in BOOLEAN : RegisteredNodeCallback(throws)
    \/ \E throws \in BOOLEAN : CacheWriteCallback(throws)
    \/ \E err \in BOOLEAN : SendToQueueCallback(err)
    \/ \E chan \in {Null} \cup Conns : setAMQPChannel(chan)
    \/ \E val \in NistValues : setNistLatest(val)
    \/ \E enabled \in {"true", "false"} : setEnforcePrivateStakeState(enabled)

SpecHash == InitHash /\ [][NextHash]_vars

\* the submission has ended: a response or an error went out
PostEnded == post.pc \in {"sent", "error"}

CouldNotDeliver ==
    [name |-> "InternalServerError", message |-> "Message could not be delivered"]

\* C29: a success response goes out only once the hash object {hash_id, hash,
\* nist} of that response is on the aggregator queue; a submission whose
\* handler found no channel, at line 229 or at the call of line 303, or whose
\* publish failed, ends with InternalServerError('Message could not be
\* delivered') and no success response; and a submission produces at most one
\* of the two.
C29_SuccessOnlyAfterPublish ==
    /\ post.pc = "sent" =>
          /\ \E i \in DOMAIN aggQueue :
                 /\ aggQueue[i] = hashObjOf(post.response.value)
                 /\ aggQueue[i].hash = toLowerCase(post.req.hash.value)
          /\ DOMAIN post.response.value.hash_id = {"uuid"}
          /\ ~post.noChannel
          /\ ~post.publishFailed
    /\ (PostEnded /\ (post.noChannel \/ post.publishFailed)) =>
          /\ post.pc = "error"
          /\ post.error = CouldNotDeliver
    /\ post.pc # "none" => post.answers <= 1
    /\ PostEnded => post.answers = 1
    /\ post.pc = "sent" => post.error = NullProof
    /\ (post.pc \notin {"none", "sent"}) => Len(aggQueue) = 0

\* a submission was answered with its hash_id after the publish
C29_Witness ==
    /\ post.pc = "sent"
    /\ Len(aggQueue) = 1
    /\ aggQueue[1].hash_id = post.response.value.hash_id

\* the timestamp prefix of the value last handed to setNistLatest
GivenTimestamp ==
    IF nistGiven = NullProof \/ nistGiven.value = Undefined THEN NaN
    ELSE parseInt(splitFirst(nistGiven.value))

\* C30: nistLatest and nistLatestEpoch are both null or both set; when set,
\* nistLatest is the value last handed to setNistLatest and nistLatestEpoch is
\* its timestamp prefix in seconds, a prefix above the limit being divided by
\* 1000 and floored; a value whose prefix parses to no integer or to 0 resets
\* both; and with both null no submission ends with 'Bad NTP time'.
C30_NistVarsConsistent ==
    /\ (nistLatest = NullProof) <=> (nistLatestEpoch = NullProof)
    /\ nistGiven = NullProof => nistLatest = NullProof
    /\ nistGiven # NullProof =>
          IF GivenTimestamp \in {NaN, Given(0)}
          THEN nistLatest = NullProof /\ nistLatestEpoch = NullProof
          ELSE /\ nistLatest = nistGiven
               /\ nistLatestEpoch # NullProof
               /\ IF GivenTimestamp.value > MillisecondsAbove
                  THEN nistLatestEpoch.value = GivenTimestamp.value \div 1000
                  ELSE nistLatestEpoch.value = GivenTimestamp.value
    /\ (post.pc # "none" /\ post.nistSeen = NullProof) =>
          (post.error = NullProof \/ post.error.message # "Bad NTP time")

\* a timestamp in milliseconds was stored in seconds
C30_Witness ==
    /\ nistLatest # NullProof
    /\ GivenTimestamp # NaN
    /\ GivenTimestamp.value > MillisecondsAbove
    /\ nistLatestEpoch.value = 1000000

\* the submission went through step <<what, outcome>>
PostDid(what, outcome) ==
    /\ post.pc # "none"
    /\ \E i \in DOMAIN post.hist : post.hist[i] = <<what, outcome>>

\* the errors that answer a submission whose node was found
AfterNodeFound ==
    { NullProof,
      [name |-> "InvalidCredentialsError", message |-> "bad hmac value"],
      CouldNotDeliver }

\* C31: with the stake enforcement on, a missing balance key ends the
\* submission with NotAuthorizedError before any cache read, node lookup, hmac
\* comparison or publish; an error reading the balance key lets the
\* submission go on to the cache read; an error reading the hmac cache sends
\* the submission to the node lookup of the database and an error writing the
\* cache changes nothing of what follows: neither ends the submission.
C31_BalanceFailsOpen ==
    /\ PostDid("balance", "null") =>
          /\ post.pc = "error"
          /\ post.error.name = "NotAuthorizedError"
          /\ post.hist = << <<"balance", "null">> >>
          /\ post.regNode = NoNode
          /\ post.response = NullProof
          /\ aggQueue = <<>>
    /\ PostDid("balance", "throws") =>
          /\ post.hist[1] = <<"balance", "throws">>
          /\ post.pc = "hgetall" \/ Len(post.hist) > 1
          /\ post.error = NullProof \/ post.error.name # "NotAuthorizedError"
    /\ PostDid("hgetall", "throws") =>
          /\ post.pc = "findOne" \/ \E o \in {"throws", "null", "node"} : PostDid("findOne", o)
          /\ post.pc = "error" =>
                \/ PostDid("findOne", "throws")
                \/ PostDid("findOne", "null")
                \/ post.error \in AfterNodeFound
    /\ PostDid("hmset", "throws") =>
          /\ PostDid("findOne", "node")
          /\ post.error \in AfterNodeFound
          /\ post.pc \in {"sendToQueue", "sent", "error"}
    /\ (post.pc \notin {"none", "balance"} /\ post.hist # <<>> /\ post.hist[1][1] # "balance") =>
          \A i \in DOMAIN post.hist : post.hist[i][1] # "balance"

\* a submission was answered with success although the balance key could not
\* be read, the cache could not be read and the cache could not be written
C31_Witness ==
    /\ post.pc = "sent"
    /\ PostDid("balance", "throws")
    /\ PostDid("hgetall", "throws")
    /\ PostDid("hmset", "throws")

\* ---------------------------------------------------------------------------
\* The task accumulator: processMessage pools the messages it consumes, four
\* interval functions drain the pools in batches to the task handler.

\* the batch size of a pool
BatchSize(pool) ==
    IF pool \in {"AUDIT_LOG_WRITE_POOL", "E2E_AUDIT_LOG_WRITE_POOL"}
    THEN auditLogWriteBatchSize
    ELSE auditScoreUpdateBatchSize

\* msg.properties.type of the messages on the work queue
MessageTypes ==
    { "write_audit_log", "write_e2e_audit_log", "update_node_audit_score",
      "update_node_e2e_audit_score", "unknown" }

\* the pool the switch of processMessage sends a type to
PoolOf(type) ==
    CASE type = "write_audit_log" -> "AUDIT_LOG_WRITE_POOL"
      [] type = "write_e2e_audit_log" -> "E2E_AUDIT_LOG_WRITE_POOL"
      [] type = "update_node_audit_score" -> "AUDIT_SCORE_UPDATE_POOL"
      [] type = "update_node_e2e_audit_score" -> "E2E_AUDIT_SCORE_UPDATE_POOL"
      [] OTHER -> "none"

\* a drain of the pool awaits its enqueue
Awaiting(pool) == \E d \in Drains : drains[d].pc = "await" /\ drains[d].pool = pool

\* the decision amqpChannel.ack(msg) or amqpChannel.nack(msg) makes, on the
\* channel the module handle holds; enqueue is what became of the batch
Decision(msg, kind, enqueue) ==
    [id |-> msg.id, kind |-> kind, chan |-> accChannel, enqueue |-> enqueue]

\* pendingWriteObjs.forEach((item) => amqpChannel.<kind>(item.msg))
DecideAll(items, kind, enqueue) ==
    [i \in DOMAIN items |-> Decision(items[i].msg, kind, enqueue)]

\* processMessage (lines 71-102) with the consume function it calls (lines
\* 104-154): a message of a known type is pooled with its content, a message
\* of an unknown type is acked. The message comes on the open channel.
accProcessMessage(type) ==
    /\ accChannel # Null
    /\ Len(delivered) < MaxDeliveries
    /\ LET msg == [id |-> Len(delivered) + 1, type |-> type, chan |-> accChannel]
           item == [json |-> [content |-> msg.id], msg |-> msg]
       IN  /\ delivered' = Append(delivered,
                                  [msg |-> msg,
                                   duringAwait |-> type # "unknown" /\ Awaiting(PoolOf(type))])
           /\ IF type = "unknown"
              THEN /\ decisions' = Append(decisions, Decision(msg, "ack", "none"))
                   /\ pools' = pools
              ELSE /\ pools' = [pools EXCEPT ![PoolOf(type)] = Append(@, item)]
                   /\ decisions' = decisions
    /\ UNCHANGED <<coreVars, apiVars, hashVars, draining, accChannel, accRedis, taskQueue,
                   resquePending, drains, batches, chansOpened>>

\* Math.ceil(count / size)
Ceil(count, size) == (count + size - 1) \div size

\* splice taking the newest items of the pool instead of the oldest
SpliceTakenFromBack(pool, size) ==
    SubSeq(pool, (IF Len(pool) < size THEN 0 ELSE Len(pool) - size) + 1, Len(pool))

\* Array.prototype.splice(0, size): what is removed and what is left
SpliceTaken(pool, size) == SubSeq(pool, 1, IF Len(pool) < size THEN Len(pool) ELSE size)

SpliceLeft(pool, size) == SubSeq(pool, (IF Len(pool) < size THEN Len(pool) ELSE size) + 1, Len(pool))

\* the loop of a drain (lines 163-187) from iteration st.x on, run until it
\* awaits an enqueue, ends, or throws. With no task queue the call of enqueue
\* throws a TypeError inside the try and the catch nacks the batch at once;
\* with no channel the nack of the catch throws in its turn and the drain is
\* abandoned.
RECURSIVE DrainLoop(_, _)
DrainLoop(pool, st) ==
    IF st.x >= st.needed THEN [st EXCEPT !.pc = "done"]
    ELSE LET size == BatchSize(pool)
             pending == SpliceTaken(st.pool, size)
             batch(result) == [pool |-> pool, items |-> pending, result |-> result]
         IN  IF taskQueue = Null
             THEN IF accChannel = Null /\ pending # <<>>
                  THEN [st EXCEPT !.pc = "threw",
                                  !.pool = SpliceLeft(st.pool, size),
                                  !.batches = Append(@, batch("failed"))]
                  ELSE DrainLoop(pool,
                          [st EXCEPT !.pool = SpliceLeft(st.pool, size),
                                     !.batches = Append(@, batch("failed")),
                                     !.decisions = @ \o DecideAll(pending, "nack", "failed"),
                                     !.x = @ + 1])
             ELSE [st EXCEPT !.pc = "await",
                             !.pool = SpliceLeft(st.pool, size),
                             !.batches = Append(@, batch("pending"))]

\* what a drain leaves behind once its loop stopped at r: the flag is reset
\* only when the loop ended (line 189)
DrainStops(pool, d, r) ==
    /\ pools' = [pools EXCEPT ![pool] = r.pool]
    /\ decisions' = r.decisions
    /\ batches' = r.batches
    /\ draining' = [draining EXCEPT ![pool] = IF r.pc = "done" THEN FALSE ELSE TRUE]
    /\ drains' = [drains EXCEPT ![d] =
                     IF r.pc = "await"
                     THEN [pc |-> "await", pool |-> pool, x |-> r.x, needed |-> r.needed,
                           batch |-> Len(r.batches)]
                     ELSE IdleDrain]

\* a drain function from its call by the interval to its first await or its
\* end (lines 156-191, and the same for the other three pools)
Drain(pool) ==
    /\ ~draining[pool]
    /\ accChannel # Null
    /\ \E d \in Drains :
          /\ drains[d] = IdleDrain
          /\ \A e \in Drains : drains[e] = IdleDrain => d <= e
          /\ DrainStops(pool, d,
                DrainLoop(pool, [pc |-> "run", pool |-> pools[pool], decisions |-> decisions,
                                 batches |-> batches, x |-> 0,
                                 needed |-> Ceil(Len(pools[pool]), BatchSize(pool))]))
    /\ UNCHANGED <<coreVars, apiVars, hashVars, accChannel, accRedis, taskQueue,
                   resquePending, delivered, chansOpened>>

drainAuditLogWritePoolAsync == Drain("AUDIT_LOG_WRITE_POOL")

drainE2EAuditLogWritePoolAsync == Drain("E2E_AUDIT_LOG_WRITE_POOL")

drainAuditScoreUpdatePoolAsync == Drain("AUDIT_SCORE_UPDATE_POOL")

drainE2EAuditScoreUpdatePoolAsync == Drain("E2E_AUDIT_SCORE_UPDATE_POOL")

\* taskQueue.enqueue returned (err FALSE) or threw (err TRUE) for the batch
\* drain d awaits: the batch is acked, or nacked in the catch, on the channel
\* the module handle holds now, and the loop goes on. With the handle null the
\* ack throws inside the try, the nack of the catch throws too, and the drain
\* is abandoned with its flag set.
EnqueueCallback(d, err) ==
    /\ drains[d].pc = "await"
    /\ LET pool == drains[d].pool
           b == drains[d].batch
           result == IF err THEN "failed" ELSE "ok"
           items == batches[b].items
           done == [batches EXCEPT ![b].result = result]
       IN  IF accChannel = Null /\ items # <<>>
           THEN /\ drains' = [drains EXCEPT ![d] = IdleDrain]
                /\ batches' = done
                /\ UNCHANGED <<pools, decisions, draining>>
           ELSE DrainStops(pool, d,
                   DrainLoop(pool,
                      [pc |-> "run", pool |-> pools[pool],
                       decisions |-> decisions
                                     \o DecideAll(items, IF err THEN "nack" ELSE "ack", result),
                       batches |-> done, x |-> drains[d].x + 1,
                       needed |-> drains[d].needed]))
    /\ UNCHANGED <<coreVars, apiVars, hashVars, accChannel, accRedis, taskQueue,
                   resquePending, delivered, chansOpened>>

\* the channel callback of openRMQConnectionAsync (line 334): a new channel
ChannelOpened ==
    /\ accChannel = Null
    /\ chansOpened < MaxConn
    /\ chansOpened' = chansOpened + 1
    /\ accChannel' = chansOpened + 1
    /\ UNCHANGED <<coreVars, apiVars, hashVars, pools, draining, accRedis, taskQueue,
                   resquePending, drains, delivered, decisions, batches>>

\* the close callback of openRMQConnectionAsync (lines 335-340)
ChannelLost ==
    /\ accChannel # Null
    /\ accChannel' = Null
    /\ pools' = [pools EXCEPT !["AUDIT_LOG_WRITE_POOL"] = <<>>]
    /\ UNCHANGED <<coreVars, apiVars, hashVars, draining, accRedis, taskQueue,
                   resquePending, drains, delivered, decisions, batches, chansOpened>>

\* the open callback of openRedisConnection (lines 312-315)
RedisOpened ==
    /\ accRedis = Null
    /\ accRedis' = RedisClient
    /\ resquePending' = TRUE
    /\ UNCHANGED <<coreVars, apiVars, hashVars, pools, draining, accChannel, taskQueue,
                   drains, delivered, decisions, batches, chansOpened>>

\* initResqueQueueAsync after its await (line 349)
initResqueQueueAsync ==
    /\ resquePending
    /\ resquePending' = FALSE
    /\ taskQueue' = ResqueQueue
    /\ UNCHANGED <<coreVars, apiVars, hashVars, pools, draining, accChannel, accRedis,
                   drains, delivered, decisions, batches, chansOpened>>

\* the close callback of openRedisConnection (lines 315-320)
RedisLost ==
    /\ accRedis # Null
    /\ accRedis' = Null
    /\ taskQueue' = Null
    /\ draining' = [draining EXCEPT !["AUDIT_LOG_WRITE_POOL"] = FALSE]
    /\ UNCHANGED <<coreVars, apiVars, hashVars, pools, accChannel, resquePending,
                   drains, delivered, decisions, batches, chansOpened>>

NextAcc ==
    \/ \E type \in MessageTypes : accProcessMessage(type)
    \/ drainAuditLogWritePoolAsync
    \/ drainE2EAuditLogWritePoolAsync
    \/ drainAuditScoreUpdatePoolAsync
    \/ drainE2EAuditScoreUpdatePoolAsync
    \/ \E d \in Drains, err \in BOOLEAN : EnqueueCallback(d, err)
    \/ ChannelOpened
    \/ ChannelLost
    \/ RedisOpened
    \/ initResqueQueueAsync
    \/ RedisLost

\* the task accumulator alone, every other service at rest
InitAccumulator == InitApi /\ apiRedis = RedisClient

SpecAcc == InitAccumulator /\ [][NextAcc]_vars

\* the ids of the messages of a list of pool items
ItemIds(items) == { items[i].msg.id : i \in DOMAIN items }

\* the decisions issued for message id
DecisionsOf(id) == { k \in DOMAIN decisions : decisions[k].id = id }

\* message id waits in a pool
Pooled(id) == \E p \in Pools : id \in ItemIds(pools[p])

\* message id was taken from its pool into a batch
InBatch(id) == \E b \in DOMAIN batches : id \in ItemIds(batches[b].items)

\* the messages consumed so far that processMessage pooled
PooledMessages == { i \in DOMAIN delivered : delivered[i].msg.type # "unknown" }

\* C32: every message a drain removed from a pool has exactly one decision
\* once the enqueue of its batch returned, an ack for every message of a batch
\* whose enqueue succeeded and a nack for every message of a batch whose
\* enqueue failed; a message of a batch still awaiting its enqueue has no
\* decision; and a message that was pooled is in its pool or was taken into a
\* batch.
C32_OneUniformDecisionPerBatch ==
    /\ \A b \in DOMAIN batches : \A id \in ItemIds(batches[b].items) :
          /\ batches[b].result = "pending" => DecisionsOf(id) = {}
          /\ batches[b].result # "pending" =>
                /\ Cardinality(DecisionsOf(id)) = 1
                /\ \A k \in DecisionsOf(id) :
                       decisions[k].kind = IF batches[b].result = "ok" THEN "ack" ELSE "nack"
    /\ \A k \in DOMAIN decisions :
          (decisions[k].kind = "ack" /\ delivered[decisions[k].id].msg.type # "unknown")
              => decisions[k].enqueue = "ok"
    /\ \A i \in PooledMessages : Pooled(i) \/ InBatch(i)

\* the batches hold at most the batch size of their pool, and what a batch
\* took arrived before everything its pool holds, which is in arrival order
BatchesFromTheFront ==
    /\ \A b \in DOMAIN batches :
          /\ Len(batches[b].items) <= BatchSize(batches[b].pool)
          /\ \A i, j \in DOMAIN batches[b].items :
                 i < j => batches[b].items[i].msg.id < batches[b].items[j].msg.id
          /\ \A id \in ItemIds(batches[b].items) :
                 \A later \in ItemIds(pools[batches[b].pool]) : id < later
    /\ \A p \in Pools : \A i, j \in DOMAIN pools[p] :
          i < j => pools[p][i].msg.id < pools[p][j].msg.id

\* C33: a batch holds at most the batch size of its pool, taken from the
\* front of the pool in arrival order, and a message that arrived while a
\* drain of its pool awaited an enqueue is in a batch or still in the pool.
C33_BatchesBoundedArrivalsKept ==
    /\ BatchesFromTheFront
    /\ \A i \in PooledMessages : delivered[i].duringAwait => (Pooled(i) \/ InBatch(i))

\* C33 as the code has it: the same, except that a message of the audit-log
\* pool whose channel was lost since it arrived may be gone from the pool,
\* the close handler having emptied that pool.
C33_ArrivalsKeptUnlessChannelLost ==
    /\ BatchesFromTheFront
    /\ \A i \in PooledMessages :
          delivered[i].duringAwait =>
              \/ Pooled(i)
              \/ InBatch(i)
              \/ /\ delivered[i].msg.type = "write_audit_log"
                 /\ delivered[i].msg.chan # accChannel

\* a message that arrived during an await was taken by a later batch of the
\* same drain, and another that arrived during an await waits in the pool
C33_Witness ==
    \E i, j \in PooledMessages :
        /\ delivered[i].duringAwait
        /\ InBatch(i)
        /\ delivered[j].duringAwait
        /\ Pooled(j)
        /\ delivered[i].msg.type = delivered[j].msg.type

\* C34: no two drains of one pool are in progress at a time.
C34_OneDrainPerPool ==
    \A d, e \in Drains :
        (drains[d].pc = "await" /\ drains[e].pc = "await" /\ drains[d].pool = drains[e].pool)
            => d = e

\* C35: a *_DRAINING flag that is set belongs to a drain in progress, which
\* resets it when its loop ends: no drain leaves its flag set behind.
C35_SetFlagHasItsDrain == \A p \in Pools : draining[p] => Awaiting(p)

\* C36: with a channel open, every pooled message was received on it, and
\* every ack and nack is issued on the channel that delivered its message.
C36_NoMessageOfAnOlderChannel ==
    /\ accChannel # Null =>
          \A p \in Pools : \A i \in DOMAIN pools[p] : pools[p][i].msg.chan = accChannel
    /\ \A k \in DOMAIN decisions : decisions[k].chan = delivered[decisions[k].id].msg.chan

====
